---- MODULE Spec2Model ----
(***************************************************************************)
(* A model of cycle_log_parser: the log listener hands each decoded line   *)
(* to the activities, player and server parsers, which change the shared   *)
(* StateHolder (the list of games and the in-game flag) and send overlay   *)
(* actions through the event loop proxy.                                   *)
(*                                                                         *)
(* An Option<T> of the source is a set with at most one element: {} is     *)
(* None and {v} is Some(v).  A decoded line is a record of its timestamp,  *)
(* its event type, the prefix of its text the parsers test with            *)
(* starts_with, and the results of the substring_between extractions the   *)
(* parsers make on its text.                                               *)
(***************************************************************************)
EXTENDS Integers, Sequences, FiniteSets, TLC

VARIABLES
    games,          \* StateHolder.games: the list of games, front first
    in_game,        \* StateHolder.in_game
    server,         \* the fields of parsers::server::Parser
    last_finished,  \* parsers::player::Parser.last_finished
    task,           \* the parsing task: "running" or "panicked"
    poisoned,       \* the mutexes a panic left poisoned
    line,           \* the line handled last ({} before the first line)
    before,         \* the store and the parsers' fields when that line arrived
    out,            \* the overlay actions sent while handling that line
    alerts,         \* the beeps requested while handling that line
    scen,           \* the lines handled so far while they are a prefix of scenario A
    call,           \* the last call made outside the handling of a line, with its result
    tail,           \* the log file and the read loop of process_log_file
    joined,         \* the 'inMatch' lines handled since the front game was inserted
    overlay,        \* the event loop of the overlay: its queue and its blocks
    locks,          \* the mutexes: who holds them, and what each thread does next
    deaths          \* the "dead" lines handled since the front game was inserted, by suffix

vars == <<games, in_game, server, last_finished, task, poisoned, line, before, out, alerts,
          scen, call, tail, joined, overlay, locks, deaths>>

----------------------------------------------------------------------------
(* Bounds of the model *)

MaxGames == 3       \* sessions inserted into the history
MaxPlayers == 4     \* value of total_players
MaxNear == 2        \* value of near_players
MaxKills == 2       \* kills recorded for one attacker
MaxText == 5        \* characters of a text given to substring_between
MaxDelim == 2       \* characters of a delimiter given to substring_between
MaxFile == 3        \* lines the game appends to the log file
MaxErrors == 1      \* read errors of the log file
MaxQueue == 2       \* events waiting in the queue of the overlay's event loop

----------------------------------------------------------------------------
(* objects: timings, maps, actors, weapons, game *)

duration(minutes, seconds) == (minutes * 60 + seconds) * 1000

Timings_new(morning, day, evening, night) ==
    [time_between_storms |-> morning + day + evening + night,
     morning |-> morning, day |-> day, evening |-> evening, night |-> night]

NORMAL == Timings_new(duration(4, 0), duration(16, 40), duration(13, 20), duration(4, 40))

THARIS == Timings_new(duration(4, 0), duration(12, 40), duration(8, 20), duration(4, 40))

GameMap(family, timings) == [family |-> family, timings |-> timings]

\* the pairs <<s, s.to_lowercase()>> of the strings that are not lower case
LowerPairs ==
    {
       <<"AIChar_Crusher_BP", "aichar_crusher_bp">>,
       <<"AIChar_Howler_BP", "aichar_howler_bp">>,
       <<"AIChar_Rattler_BP", "aichar_rattler_bp">>,
       <<"AIChar_Strider_BP", "aichar_strider_bp">>,
       <<"AIChar_Weremole_BP", "aichar_weremole_bp">>,
       <<"Consumable_GasGrenade_01", "consumable_gasgrenade_01">>,
       <<"DEAD", "dead">>,
       <<"Dead", "dead">>,
       <<"Escaped", "escaped">>,
       <<"Fall", "fall">>,
       <<"LightningStrike_BP", "lightningstrike_bp">>,
       <<"Melee_Knife_01", "melee_knife_01">>,
       <<"None", "none">>,
       <<"PRO_PlayerCharacter", "pro_playercharacter">>,
       <<"ShockGrenade_01", "shockgrenade_01">>,
       <<"ShockGrenade_02", "shockgrenade_02">>,
       <<"ShockGrenade_03", "shockgrenade_03">>,
       <<"ShockGrenade_04", "shockgrenade_04">>,
       <<"ShockGrenade_05", "shockgrenade_05">>,
       <<"Suicide", "suicide">>,
       <<"WP_A_AR_Bullet_01", "wp_a_ar_bullet_01">>,
       <<"WP_A_BR_Bullet_01", "wp_a_br_bullet_01">>,
       <<"WP_A_BR_Bullet_02", "wp_a_br_bullet_02">>,
       <<"WP_A_Launch_MSL_01", "wp_a_launch_msl_01">>,
       <<"WP_A_Pistol_Bullet_01", "wp_a_pistol_bullet_01">>,
       <<"WP_A_Pistol_Bullet_02", "wp_a_pistol_bullet_02">>,
       <<"WP_A_SGun_Energy_01", "wp_a_sgun_energy_01">>,
       <<"WP_A_SMG_Shard_01", "wp_a_smg_shard_01">>,
       <<"WP_A_Sniper_Gauss_01", "wp_a_sniper_gauss_01">>,
       <<"WP_A_Sniper_Gauss_02", "wp_a_sniper_gauss_02">>,
       <<"WP_D_AR_Bullet_01", "wp_d_ar_bullet_01">>,
       <<"WP_D_BR_Shard_01", "wp_d_br_shard_01">>,
       <<"WP_D_LMG_Energy_01", "wp_d_lmg_energy_01">>,
       <<"WP_D_LMG_Energy_02", "wp_d_lmg_energy_02">>,
       <<"WP_D_Pistol_Bullet_01", "wp_d_pistol_bullet_01">>,
       <<"WP_D_SGun_Shard_01", "wp_d_sgun_shard_01">>,
       <<"WP_D_SMG_Energy_01", "wp_d_smg_energy_01">>,
       <<"WP_D_Sniper_Gauss_01", "wp_d_sniper_gauss_01">>,
       <<"WP_E_AR_Energy_01", "wp_e_ar_energy_01">>,
       <<"WP_E_AR_Energy_01_scrappy", "wp_e_ar_energy_01_scrappy">>,
       <<"WP_E_AR_Energy_02", "wp_e_ar_energy_02">>,
       <<"WP_E_Pistol_Bullet_01", "wp_e_pistol_bullet_01">>,
       <<"WP_E_Pistol_Bullet_01_scrappy", "wp_e_pistol_bullet_01_scrappy">>,
       <<"WP_E_SGun_Bullet_01", "wp_e_sgun_bullet_01">>,
       <<"WP_E_SGun_Bullet_01_scrappy", "wp_e_sgun_bullet_01_scrappy">>,
       <<"WP_E_SMG_Bullet_01", "wp_e_smg_bullet_01">>,
       <<"WP_E_SMG_Bullet_01_scrappy", "wp_e_smg_bullet_01_scrappy">>,
       <<"WP_E_SMG_Bullet_02", "wp_e_smg_bullet_02">>,
       <<"WP_E_Sniper_Bullet_01", "wp_e_sniper_bullet_01">>,
       <<"WP_E_Sniper_Bullet_02", "wp_e_sniper_bullet_02">>,
       <<"WP_G_AR_Beam_01", "wp_g_ar_beam_01">>,
       <<"WP_G_AR_Energy_01", "wp_g_ar_energy_01">>,
       <<"WP_G_AR_Needle_01", "wp_g_ar_needle_01">>,
       <<"WP_G_AR_Needle_02", "wp_g_ar_needle_02">>,
       <<"WP_G_HVY_Beam_01", "wp_g_hvy_beam_01">>,
       <<"WP_G_HVY_Beam_02", "wp_g_hvy_beam_02">>,
       <<"WP_G_Pistol_Energy_01", "wp_g_pistol_energy_01">>,
       <<"WP_G_Pistol_Energy_02", "wp_g_pistol_energy_02">>,
       <<"WP_G_SMG_Needle_01", "wp_g_smg_needle_01">>,
       <<"WP_G_SMG_Needle_02", "wp_g_smg_needle_02">>,
       <<"WP_G_Sniper_Energy_01", "wp_g_sniper_energy_01">>
    }

to_lowercase(s) ==
    IF \E p \in LowerPairs : p[1] = s
    THEN (CHOOSE p \in LowerPairs : p[1] = s)[2]
    ELSE s

actor_list ==
    <<
       <<"None", "Common", "None">>,
       <<"Player", "Common", "PRO_PlayerCharacter">>,
       <<"Strider", "Common", "AIChar_Strider_BP">>,
       <<"Rattler", "Uncommon", "AIChar_Rattler_BP">>,
       <<"Crusher", "Epic", "AIChar_Crusher_BP">>,
       <<"Weremole", "Rainbow", "AIChar_Weremole_BP">>,
       <<"Howler", "Rainbow", "AIChar_Howler_BP">>
    >>

weapon_list ==
    <<
       <<"None", "Common", "None">>,
       <<"K_28 (Scrappy)", "Common", "WP_E_Pistol_Bullet_01_scrappy">>,
       <<"K_28", "Common", "WP_E_Pistol_Bullet_01">>,
       <<"B9_Trenchgun (Scrappy)", "Common", "WP_E_SGun_Bullet_01_scrappy">>,
       <<"B9_Trenchgun", "Common", "WP_E_SGun_Bullet_01">>,
       <<"S_576 (Scrappy)", "Common", "WP_E_SMG_Bullet_01_scrappy">>,
       <<"S_576", "Common", "WP_E_SMG_Bullet_01">>,
       <<"S_576", "Uncommon", "WP_E_SMG_Bullet_02">>,
       <<"AR_55 (Scrappy)", "Common", "WP_E_AR_Energy_01_scrappy">>,
       <<"AR_55", "Common", "WP_E_AR_Energy_01">>,
       <<"AR_55", "Uncommon", "WP_E_AR_Energy_02">>,
       <<"C_32_Bolt", "Common", "WP_E_Sniper_Bullet_01">>,
       <<"C_32_Bolt", "Uncommon", "WP_E_Sniper_Bullet_02">>,
       <<"Bulldog", "Uncommon", "WP_D_Pistol_Bullet_01">>,
       <<"Guarantee", "Uncommon", "WP_D_LMG_Energy_02">>,
       <<"Guarantee", "Rare", "WP_D_LMG_Energy_01">>,
       <<"Lacerator", "Rare", "WP_D_BR_Shard_01">>,
       <<"Shattergun", "Epic", "WP_D_SGun_Shard_01">>,
       <<"Advocate", "Epic", "WP_D_AR_Bullet_01">>,
       <<"Voltaic_brute", "Exotic", "WP_D_SMG_Energy_01">>,
       <<"Kinetic_arbiter", "Exotic", "WP_D_Sniper_Gauss_01">>,
       <<"Scrapper", "Uncommon", "WP_A_SMG_Shard_01">>,
       <<"Maelstorm", "Rare", "WP_A_SGun_Energy_01">>,
       <<"Longshot", "Rare", "WP_A_BR_Bullet_02">>,
       <<"Longshot", "Epic", "WP_A_BR_Bullet_01">>,
       <<"Hammer", "Rare", "WP_A_Pistol_Bullet_02">>,
       <<"Hammer", "Exotic", "WP_A_Pistol_Bullet_01">>,
       <<"KOR", "Exotic", "WP_A_AR_Bullet_01">>,
       <<"Scarab", "Uncommon", "WP_G_Pistol_Energy_01">>,
       <<"Scarab", "Rare", "WP_G_Pistol_Energy_02">>,
       <<"Manticore", "Uncommon", "WP_G_AR_Needle_01">>,
       <<"Manticore", "Rare", "WP_G_AR_Needle_02">>,
       <<"Phasic Lancer", "Rare", "WP_G_AR_Energy_01">>,
       <<"Flechette Gun", "Rare", "WP_G_SMG_Needle_02">>,
       <<"Flechette Gun", "Epic", "WP_G_SMG_Needle_01">>,
       <<"Gorgon", "Epic", "WP_G_AR_Beam_01">>,
       <<"Basilisk", "Exotic", "WP_G_Sniper_Energy_01">>,
       <<"KARMA", "Epic", "WP_A_Sniper_Gauss_02">>,
       <<"KARMA", "Legendary", "WP_A_Sniper_Gauss_01">>,
       <<"KOMRAD", "Legendary", "WP_A_Launch_MSL_01">>,
       <<"ZEUS", "Epic", "WP_G_HVY_Beam_02">>,
       <<"ZEUS", "Legendary", "WP_G_HVY_Beam_01">>,
       <<"Knife", "Rainbow", "Melee_Knife_01">>,
       <<"Shock Grenade", "Common", "ShockGrenade_01">>,
       <<"Shock Grenade", "Uncommon", "ShockGrenade_02">>,
       <<"Shock Grenade", "Rare", "ShockGrenade_03">>,
       <<"Shock Grenade", "Epic", "ShockGrenade_04">>,
       <<"Shock Grenade", "Exotic", "ShockGrenade_05">>,
       <<"Gas Grenade", "Uncommon", "Consumable_GasGrenade_01">>,
       <<"Suicide", "Common", "Suicide">>,
       <<"Fall", "Uncommon", "Fall">>,
       <<"Lightning Strike", "Rare", "LightningStrike_BP">>
    >>

\* the HashMap built by inserting the entries of list in order under the
\* lower-cased log name: a later entry replaces an earlier one with the key
TableGet(list, key) ==
    LET hits == {i \in 1..Len(list) : to_lowercase(list[i][3]) = key}
    IN  IF hits = {} THEN {}
        ELSE LET i == CHOOSE j \in hits : \A k \in hits : k <= j
             IN  {[name |-> list[i][1], rarity |-> list[i][2], log_name |-> list[i][3]]}

Actor_get(actor) == TableGet(actor_list, to_lowercase(actor))

Weapon_get(weapon) == TableGet(weapon_list, to_lowercase(weapon))

\* instance_id.split('-').last() for the session ids of the model
LastSegment(instance_id) ==
    CASE instance_id = "a-1f" -> "1f"
      [] instance_id = "b-2e" -> "2e"
      [] instance_id = "c-"   -> ""
      [] instance_id = "d-zz" -> "zz"
      [] OTHER -> instance_id

\* u64::from_str_radix(id, 16): {} is the Err the caller unwraps
from_str_radix16(id) ==
    CASE id = "1f" -> {31}
      [] id = "2e" -> {46}
      [] OTHER -> {}

\* the name drawn by the generator seeded with seed: a function of the seed
fake_name(seed) ==
    CASE seed = 31 -> "fake name 31"
      [] seed = 46 -> "fake name 46"
      [] OTHER -> "fake name"

EmptyKills == [id \in {} |-> 0]

\* Game::new; {} when the unwrap of the seed panics
Game_new(instance_id, region, map, created_at, party_size) ==
    LET id == LastSegment(instance_id)
        seed == from_str_radix16(id)
    IN  IF id # "" /\ seed = {}
        THEN {}
        ELSE {[instance_id |-> instance_id,
               region |-> region,
               name |-> IF id # "" THEN fake_name(CHOOSE s \in seed : TRUE) ELSE "",
               map |-> map,
               created_at |-> created_at,
               party_size |-> party_size,
               total_players |-> 0,
               near_players |-> 0,
               kill_count |-> EmptyKills]}

drop_game(game) ==
    [game EXCEPT !.kill_count = EmptyKills, !.total_players = 0, !.near_players = 0]

\* Game::kill that forgets the tally: every kill is the first
kill_first(game, id) == 1

\* Game::kill: the new tally of id
kill(game, id) ==
    IF id \in DOMAIN game.kill_count THEN game.kill_count[id] + 1 ELSE 1

\* the game after Game::kill
killed(game, id) ==
    [game EXCEPT !.kill_count =
        [k \in DOMAIN game.kill_count \cup {id} |-> IF k = id THEN kill(game, id) ELSE game.kill_count[k]]]

----------------------------------------------------------------------------
(* state: StateHolder *)

\* is_in_game that answers true whatever the flag is
is_in_game_always(flag) == TRUE

\* is_in_game: the value of the in-game flag
is_in_game(flag) == flag

\* leave_game that removes the front game from the list
leave_game_removing(gs) == IF gs # <<>> THEN Tail(gs) ELSE gs

\* leave_game that clears the flag and forgets to drop the front game
leave_game_flag_only(gs) == gs

\* the games list after leave_game (the in-game flag becomes false)
leave_game(gs) ==
    IF gs # <<>> THEN [gs EXCEPT ![1] = drop_game(gs[1])] ELSE gs

\* set_game that moves the existing game to the front instead of copying it
set_game_moving(gs, game) ==
    LET dropped == IF gs # <<>> THEN [gs EXCEPT ![1] = drop_game(gs[1])] ELSE gs
        hits == {i \in 1..Len(dropped) : dropped[i].instance_id = game.instance_id}
    IN  IF hits = {} THEN <<game>> \o dropped
        ELSE LET h == CHOOSE i \in hits : \A j \in hits : i <= j
             IN  <<dropped[h]>> \o SubSeq(dropped, 1, h - 1) \o SubSeq(dropped, h + 1, Len(dropped))

\* set_game that pushes the game to the back of the list
set_game_back(gs, game) ==
    LET dropped == IF gs # <<>> THEN [gs EXCEPT ![1] = drop_game(gs[1])] ELSE gs
        hits == {i \in 1..Len(dropped) : dropped[i].instance_id = game.instance_id}
        existing_game == IF hits = {} THEN {}
                         ELSE {dropped[CHOOSE i \in hits : \A j \in hits : i <= j]}
    IN  dropped \o <<IF existing_game # {} THEN CHOOSE g \in existing_game : TRUE ELSE game>>

\* set_game that puts the game in front of a front it does not drop
set_game_undropped(gs, game) ==
    LET hits == {i \in 1..Len(gs) : gs[i].instance_id = game.instance_id}
        existing_game == IF hits = {} THEN {}
                         ELSE {gs[CHOOSE i \in hits : \A j \in hits : i <= j]}
    IN  <<IF existing_game # {} THEN CHOOSE g \in existing_game : TRUE ELSE game>> \o gs

\* the games list after set_game (the in-game flag becomes true)
set_game(gs, game) ==
    LET dropped == IF gs # <<>> THEN [gs EXCEPT ![1] = drop_game(gs[1])] ELSE gs
        hits == {i \in 1..Len(dropped) : dropped[i].instance_id = game.instance_id}
        existing_game == IF hits = {} THEN {}
                         ELSE {dropped[CHOOSE i \in hits : \A j \in hits : i <= j]}
    IN  <<IF existing_game # {} THEN CHOOSE g \in existing_game : TRUE ELSE game>> \o dropped

\* games_ago that compares the instance_id of the games only
games_ago_by_id(gs) ==
    LET hits == {i \in 2..Len(gs) : gs[i].instance_id = gs[1].instance_id}
    IN  IF gs = <<>> \/ hits = {} THEN {}
        ELSE {(CHOOSE i \in hits : \A j \in hits : i <= j) - 1}

\* the while loop of games_ago: game is the front, i the position in gs of
\* the entry the iterator yields next, counter the entries yielded after
\* the front
RECURSIVE games_ago_loop(_, _, _, _)
games_ago_loop(gs, game, i, counter) ==
    IF i > Len(gs) THEN {}
    ELSE IF gs[i] = game THEN {counter + 1}
    ELSE games_ago_loop(gs, game, i + 1, counter + 1)

games_ago(gs) ==
    IF gs = <<>> THEN {} ELSE games_ago_loop(gs, gs[1], 2, 0)

----------------------------------------------------------------------------
(* parsers::server *)

\* parse_map with the variants of MAP01 and MAP02 exchanged
parse_map_exchanged(map) ==
    CASE map = "MAP01" -> {GameMap("CrescentFalls", NORMAL)}
      [] map = "MAP02" -> {GameMap("BrightSands", NORMAL)}
      [] map = "AlienCaverns" -> {GameMap("TharisIsland", THARIS)}
      [] OTHER -> {}

parse_map(map) ==
    CASE map = "MAP01" -> {GameMap("BrightSands", NORMAL)}
      [] map = "MAP02" -> {GameMap("CrescentFalls", NORMAL)}
      [] map = "AlienCaverns" -> {GameMap("TharisIsland", THARIS)}
      [] OTHER -> {}

\* str::parse::<usize>() and str::parse::<i64>() on the numerals of the model
parse_int(s) ==
    CASE s = "0" -> {0}
      [] s = "1" -> {1}
      [] s = "3" -> {3}
      [] s = "5" -> {5}
      [] s = "2" -> {2}
      [] s = "10" -> {10}
      [] OTHER -> {}

\* str::parse::<f32>() on the damage values of the model
parse_f32(s) ==
    CASE s = "50.0" -> {50}
      [] OTHER -> {}

ServerDefault ==
    [instance_id |-> "", region |-> "", map |-> GameMap("TharisIsland", NORMAL),
     party_size |-> 0, created_at |-> 0, hold |-> FALSE]

----------------------------------------------------------------------------
(* parsers::substring_between; a string is the sequence of its characters *)

Chars == {"a", "b"}

Strings(n) == UNION {[1..k -> Chars] : k \in 0..n}

\* str::find from the offset i on: the offset of the first occurrence of pat
RECURSIVE find_from(_, _, _)
find_from(text, pat, i) ==
    IF i + Len(pat) > Len(text) THEN {}
    ELSE IF SubSeq(text, i + 1, i + Len(pat)) = pat THEN {i}
    ELSE find_from(text, pat, i + 1)

find(text, pat) == find_from(text, pat, 0)

\* substring_between that takes the last occurrence of the end delimiter
substring_between_last(text, start, end) ==
    LET found == find(text, start)
    IN  IF found = {} THEN {}
        ELSE LET from == (CHOOSE i \in found : TRUE) + Len(start)
                 ends == {j \in from..Len(text) - Len(end) :
                            SubSeq(text, j + 1, j + Len(end)) = end}
             IN  IF ends = {} THEN {}
                 ELSE {SubSeq(text, from + 1, CHOOSE j \in ends : \A k \in ends : k <= j)}

substring_between(text, start, end) ==
    LET found == find(text, start)
    IN  IF found = {} THEN {}
        ELSE LET start_index == CHOOSE i \in found : TRUE
                 rest == SubSeq(text, start_index + Len(start) + 1, Len(text))
                 found_end == find(rest, end)
             IN  IF found_end = {} THEN {}
                 ELSE LET end_index == CHOOSE j \in found_end : TRUE
                      IN  {SubSeq(text, start_index + Len(start) + 1,
                                  start_index + Len(start) + end_index)}

----------------------------------------------------------------------------
(* the decoded lines *)

Opt(S) == {{}} \cup {{x} : x \in S}

Times == {100}
SessionIds == {"a-1f", "b-2e", "c-", "d-zz"}
Regions == {"eu", "us"}
SquadSizes == {"1", "3", "x"}
Timestamps == {"5", "10", "x"}
MapCodes == {"MAP01", "MAP02", "AlienCaverns", "Unknown"}
PlayerStates == {"inMatch", "finished"}
Causers == {"None", "PRO_PlayerCharacter", "pro_playercharacter", "AIChar_Strider_BP", "Unknown_BP"}
Suffixes == {"7", "8"}
Origins == {"None", "WP_E_Pistol_Bullet_01", "Melee_Knife_01", "Unknown"}
Damages == {"50.0", "x"}

TravelLine(time, is_match, session_id, region) ==
    [type |-> "LogYTravel", text |-> "UYControllerTravelComponent::TravelToServer",
     time |-> time, is_match |-> is_match, session_id |-> session_id, region |-> region]

ForcingLine(time, squad_size) ==
    [type |-> "LogYTravel", text |-> "Forcing transition to match",
     time |-> time, squad_size |-> squad_size]

HandshakeLine(time, timestamp) ==
    [type |-> "LogHandshake", text |-> "SendChallengeResponse",
     time |-> time, timestamp |-> timestamp]

WelcomedLine(time, map) ==
    [type |-> "LogNet", text |-> "Welcomed by server", time |-> time, map |-> map]

MatchStateLine(time, state) ==
    [type |-> "LogYPlayer", text |-> "OnRep_PlayerMatchState", time |-> time, state |-> state]

NearLine(time, text) == [type |-> "LogYPlayer", text |-> text, time |-> time]

\* a result line: causer is the Damage:Causer: field split at "_C_"
ResultLine(time, result, causer, origin, damage) ==
    [type |-> "LogYPlayer", text |-> "AYPlayerState::OnRep_PlayerMatchFinishedResult",
     time |-> time, result |-> result, causer |-> causer, origin |-> origin,
     damage |-> damage]

InventoryLine(time) ==
    [type |-> "LogYInventory",
     text |-> "GetInventoryComponentManager | Could not retrieve YGameStateMatch!",
     time |-> time]

ActivityLine(time, text) == [type |-> "LogYActivities", text |-> text, time |-> time]

OtherLine(time, type) == [type |-> type, text |-> "other", time |-> time]

TravelLines ==
    {TravelLine(t, m, s, r) :
        t \in Times, m \in Opt({"0", "1"}), s \in Opt(SessionIds), r \in Opt(Regions)}

ForcingLines == {ForcingLine(t, s) : t \in Times, s \in Opt(SquadSizes)}

HandshakeLines == {HandshakeLine(t, s) : t \in Times, s \in Opt(Timestamps)}

WelcomedLines == {WelcomedLine(t, m) : t \in Times, m \in Opt(MapCodes)}

MatchStateLines == {MatchStateLine(t, s) : t \in Times, s \in Opt(PlayerStates)}

NearLines ==
    {NearLine(t, x) : t \in Times, x \in {"OnPlayerStateChanged", "AYPlayerCharacter::Destroyed()"}}

CauserParts == {<<c>> : c \in Causers} \cup {<<c, s>> : c \in Causers, s \in Suffixes}

ResultLines ==
    {ResultLine(t, r, c, o, d) :
        t \in Times, r \in Opt({"Escaped", "Dead", "Unknown"}), c \in Opt(CauserParts),
        o \in Opt(Origins), d \in Opt(Damages)}

InventoryLines == {InventoryLine(t) : t \in Times}

ActivityLines ==
    {ActivityLine(t, x) : t \in Times,
        x \in {"Warning: AC_EvacShip_BP", "Warning: AA_MeteorShowerSpawner"}}

\* lines no parser has an arm for
OtherLines == {OtherLine(t, y) : t \in Times, y \in {"LogYPlayer", "LogYTravel", "LogOther"}}

----------------------------------------------------------------------------
(* the overlay actions (overlay::events::Action); held is the set of the    *)
(* StateHolder mutexes the parsing task holds when it calls send_event      *)

\* an UpdateState that never carries the game
UpdateState_none(game, held) == [kind |-> "UpdateState", game |-> {}, held |-> held]

UpdateState(game, held) == [kind |-> "UpdateState", game |-> game, held |-> held]

\* a TotalPlayerCountUpdate that carries the count of before a leave
TotalPlayerCountUpdate_before(count, held) ==
    [kind |-> "TotalPlayerCountUpdate", count |-> count + 1, held |-> held]

TotalPlayerCountUpdate(count, held) ==
    [kind |-> "TotalPlayerCountUpdate", count |-> count, held |-> held]

NearPlayerCountUpdate(count, held) ==
    [kind |-> "NearPlayerCountUpdate", count |-> count, held |-> held]

PlayerEscaped(time, seconds, message, held) ==
    [kind |-> "PlayerEscaped", time |-> time, duration |-> seconds, message |-> message,
     held |-> held]

PlayerDead(time, seconds, causer, causer_kills, weapon, damage, held) ==
    [kind |-> "PlayerDead", time |-> time, duration |-> seconds, causer |-> causer,
     causer_kills |-> causer_kills, weapon |-> weapon, damage |-> damage, held |-> held]

EvacShipCalled(time, seconds, message, held) ==
    [kind |-> "EvacShipCalled", time |-> time, duration |-> seconds, message |-> message,
     held |-> held]

MeteorsEvent(time, seconds, message, held) ==
    [kind |-> "MeteorsEvent", time |-> time, duration |-> seconds, message |-> message,
     held |-> held]

----------------------------------------------------------------------------
(* scenario A: a match travel line, a forcing line, a challenge response    *)
(* and a welcomed line, all well formed, handled first and in this order    *)

ScenOff == <<[type |-> "off"]>>

ScenAStep(i, l) ==
    CASE i = 1 -> /\ l \in TravelLines
                  /\ l.is_match = {"1"}
                  /\ l.region # {}
                  /\ \E id \in l.session_id :
                        LastSegment(id) = "" \/ from_str_radix16(LastSegment(id)) # {}
      [] i = 2 -> l \in ForcingLines /\ \E s \in l.squad_size : parse_int(s) # {}
      [] i = 3 -> l \in HandshakeLines /\ \E s \in l.timestamp : parse_int(s) # {}
      [] i = 4 -> l \in WelcomedLines /\ \E m \in l.map : parse_map(m) # {}
      [] OTHER -> FALSE

ScenNext(l) ==
    IF scen # ScenOff /\ ScenAStep(Len(scen) + 1, l) THEN Append(scen, l) ELSE ScenOff

----------------------------------------------------------------------------
(* the initial state: StateHolder::new and the parsers' defaults *)

\* no call has been made since the last line was handled
NoCall == [fn |-> "none"]

\* the lines are given to the listener one by one, the file is left out
TailOff == [pc |-> "off"]

\* the read loop after it has handed a line of the file to handle
LineRead == IF tail.pc = "off" THEN tail ELSE [tail EXCEPT !.pos = @ + 1]

Constructed ==
    /\ games = <<>>
    /\ in_game = FALSE
    /\ server = ServerDefault
    /\ last_finished = FALSE
    /\ task = "running"
    /\ poisoned = {}
    /\ line = {}
    /\ before = [games |-> <<>>, in_game |-> FALSE, server |-> ServerDefault,
                 last_finished |-> FALSE]
    /\ out = <<>>
    /\ alerts = <<>>
    /\ scen = <<>>

\* the 'inMatch' lines are not counted
JoinedOff == {}

\* the count of 'inMatch' lines after the line l is handled: it starts again
\* when the welcomed arm inserts a game; MaxPlayers stands for any larger count
JoinedAfter(l) ==
    IF joined = JoinedOff THEN joined
    ELSE LET n == CHOOSE c \in joined : TRUE
         IN  IF l.text = "Welcomed by server" /\ server.hold THEN {0}
             ELSE IF l.text = "OnRep_PlayerMatchState" /\ l.state = {"inMatch"}
             THEN {IF n < MaxPlayers THEN n + 1 ELSE n}
             ELSE joined

\* the "dead" lines are not counted
DeathsOff == {}

\* the counts of "dead" lines after the line l is handled to its end: they
\* start again when the welcomed arm inserts a game, and a "dead" result
\* line handled in a game adds one to the count of its suffix
DeathsAfter(l) ==
    IF deaths = DeathsOff THEN deaths
    ELSE LET count == CHOOSE f \in deaths : TRUE
         IN  IF l.text = "Welcomed by server" /\ server.hold
             THEN {[s \in Suffixes |-> 0]}
             ELSE IF /\ l.text = "AYPlayerState::OnRep_PlayerMatchFinishedResult"
                     /\ in_game
                     /\ \E r \in l.result : to_lowercase(r) = "dead"
             THEN {[s \in Suffixes |->
                        IF \E p \in l.causer : p[2] = s THEN count[s] + 1 ELSE count[s]]}
             ELSE deaths

\* the overlay is left out: what is sent is only recorded in out
OverlayOff == [pc |-> "off"]

\* Overlay::new: the blocks' defaults and an empty event queue; emitted is
\* the UpdateState sent last, handled the event taken from the queue last
\* with the answer of games_ago if the server block asked
Overlay_new ==
    [pc |-> "run",
     queue |-> <<>>,
     server_block |-> [total_players |-> 0, near_players |-> 0, party_size |-> 0,
                       session_name |-> <<"">>, visible |-> FALSE],
     time_block |-> [game_start |-> 0, game_end |-> 0, map |-> {}, visible |-> FALSE],
     event_block |-> <<>>,
     emitted |-> {},
     handled |-> {}]

\* the queue of the event loop holds at most MaxQueue events
PostedWithinBound(sent) ==
    IF overlay.pc = "off" THEN TRUE ELSE Len(overlay.queue) + Len(sent) <= MaxQueue

\* the event e as send_event puts it in the queue; inserted_ago is what
\* games_ago answers as the line that inserted the game of e has left the store
Queued(e) ==
    [event |-> e,
     inserted_ago |-> IF e.kind = "UpdateState" /\ e.game # {}
                      THEN <<games_ago(games')>> ELSE <<>>]

\* the overlay after send_event was called with each action of sent
Posted(sent) ==
    IF overlay.pc = "off" THEN overlay
    ELSE LET updates == {i \in 1..Len(sent) : sent[i].kind = "UpdateState"}
         IN  [overlay EXCEPT
                !.queue = @ \o [i \in 1..Len(sent) |-> Queued(sent[i])],
                !.emitted = IF updates = {} THEN @
                            ELSE {sent[CHOOSE i \in updates : \A j \in updates : j <= i]}]

\* the mutexes are not followed: every call of the store is one step
LocksOff == [pc |-> "off"]

\* the lines are counted, the overlay runs and the mutexes are followed
\* only in the specifications that say so
Untracked ==
    joined = JoinedOff /\ overlay = OverlayOff /\ locks = LocksOff /\ deaths = DeathsOff

Init == Constructed /\ call = NoCall /\ tail = TailOff /\ Untracked

Current ==
    [games |-> games, in_game |-> in_game, server |-> server, last_finished |-> last_finished]

\* the bookkeeping of a line that is handled to its end
Handled(l, sent, beeps) ==
    /\ line' = {l}
    /\ before' = Current
    /\ out' = sent
    /\ alerts' = beeps
    /\ scen' = ScenNext(l)
    /\ call' = NoCall
    /\ tail' = LineRead
    /\ joined' = JoinedAfter(l)
    /\ PostedWithinBound(sent)
    /\ overlay' = Posted(sent)
    /\ deaths' = DeathsAfter(l)
    /\ UNCHANGED <<task, poisoned, locks>>

\* a panic while handling a line: the task ends, the mutexes it held are poisoned
Panicked(l, held) ==
    /\ line' = {l}
    /\ before' = Current
    /\ out' = <<>>
    /\ alerts' = <<>>
    /\ scen' = ScenOff
    /\ call' = NoCall
    /\ tail' = LineRead
    /\ task' = "panicked"
    /\ poisoned' = poisoned \cup held
    /\ UNCHANGED <<joined, overlay, locks, deaths>>

----------------------------------------------------------------------------
(* parsers::server::Parser::parse *)

\* "LogYTravel", text starting with UYControllerTravelComponent::TravelToServer
TravelToServer(l) ==
    /\ task = "running"
    /\ l \in TravelLines
    /\ UNCHANGED last_finished
    /\ IF l.is_match = {}
       THEN /\ UNCHANGED <<games, in_game, server>>
            /\ Handled(l, <<>>, <<>>)
       ELSE IF l.is_match = {"0"}
       THEN /\ in_game' = FALSE
            /\ games' = leave_game(games)
            /\ UNCHANGED server
            /\ Handled(l, <<UpdateState({}, {})>>, <<>>)
       ELSE /\ UNCHANGED <<games, in_game>>
            /\ IF l.session_id = {}
               THEN /\ server' = [server EXCEPT !.hold = TRUE]
                    /\ Panicked(l, {})
               ELSE LET id == CHOOSE x \in l.session_id : TRUE
                    IN  IF l.region = {}
                        THEN /\ server' = [server EXCEPT !.hold = TRUE, !.instance_id = id]
                             /\ Panicked(l, {})
                        ELSE /\ server' = [server EXCEPT !.hold = TRUE, !.instance_id = id,
                                              !.region = CHOOSE r \in l.region : TRUE]
                             /\ Handled(l, <<>>, <<>>)

\* "LogYTravel", text starting with Forcing transition to match
ForcingTransition(l) ==
    /\ task = "running"
    /\ l \in ForcingLines
    /\ UNCHANGED <<games, in_game, last_finished>>
    /\ IF l.squad_size = {}
       THEN /\ server' = [server EXCEPT !.party_size = 1]
            /\ Handled(l, <<>>, <<>>)
       ELSE LET size == parse_int(CHOOSE s \in l.squad_size : TRUE)
            IN  IF size = {}
                THEN /\ UNCHANGED server
                     /\ Panicked(l, {})
                ELSE /\ server' = [server EXCEPT !.party_size = CHOOSE n \in size : TRUE]
                     /\ Handled(l, <<>>, <<>>)

\* "LogHandshake", text starting with SendChallengeResponse
SendChallengeResponse(l) ==
    /\ task = "running"
    /\ l \in HandshakeLines
    /\ UNCHANGED <<games, in_game, last_finished>>
    /\ IF ~server.hold
       THEN /\ UNCHANGED server
            /\ Handled(l, <<>>, <<>>)
       ELSE LET secs == IF l.timestamp = {} THEN {}
                        ELSE parse_int(CHOOSE s \in l.timestamp : TRUE)
            IN  IF secs = {}
                THEN /\ UNCHANGED server
                     /\ Panicked(l, {})
                ELSE LET seconds_since_start == (CHOOSE n \in secs : TRUE) - 5
                     IN  /\ server' = [server EXCEPT !.created_at = l.time - seconds_since_start]
                         /\ Handled(l, <<>>, <<>>)

\* the welcomed arm without the reset of hold
session_created_holding(parser, map) == [parser EXCEPT !.map = map]

\* the fields of the server parser after the welcomed arm built the game
session_created(parser, map) == [parser EXCEPT !.map = map, !.hold = FALSE]

\* "LogNet", text starting with Welcomed by server
WelcomedByServer(l) ==
    /\ task = "running"
    /\ l \in WelcomedLines
    /\ UNCHANGED last_finished
    /\ IF ~server.hold
       THEN /\ UNCHANGED <<games, in_game, server>>
            /\ Handled(l, <<>>, <<>>)
       ELSE IF l.map = {}
       THEN /\ UNCHANGED <<games, in_game, server>>
            /\ Panicked(l, {})
       ELSE LET map == parse_map(CHOOSE m \in l.map : TRUE)
                stored == IF map # {} THEN CHOOSE m \in map : TRUE ELSE server.map
                new == Game_new(server.instance_id, server.region, stored,
                                server.created_at, server.party_size)
            IN  IF new = {}
                THEN /\ server' = [server EXCEPT !.map = stored]
                     /\ UNCHANGED <<games, in_game>>
                     /\ Panicked(l, {})
                ELSE LET game == CHOOSE g \in new : TRUE
                     IN  /\ Len(games) < MaxGames
                         /\ server' = session_created(server, stored)
                         /\ in_game' = TRUE
                         /\ games' = set_game(games, game)
                         /\ Handled(l, <<UpdateState({game}, {})>>, <<>>)

----------------------------------------------------------------------------
(* parsers::player::Parser::parse *)

\* the front game after a player joined the match
player_joined(game) == [game EXCEPT !.total_players = @ + 1]

\* the leave branch without its total_players > 0 guard
player_left_unguarded(game) == [game EXCEPT !.total_players = @ - 1]

\* the front game after a player left the match
player_left(game) ==
    IF game.total_players > 0 THEN [game EXCEPT !.total_players = @ - 1] ELSE game

\* the join branch beeping from party_size on
joined_beep_from_party_size(game) ==
    IF game.total_players >= game.party_size THEN <<2000>> ELSE <<>>

\* the beep of the join branch: taken after the increment
joined_beep(game) == IF game.total_players > game.party_size THEN <<2000>> ELSE <<>>

\* the beep of the leave branch: found is the front game when the line
\* arrives, game is the front game after the decrement
left_beep(found, game) ==
    IF found.total_players > 0 /\ game.total_players > game.party_size
    THEN <<400>> ELSE <<>>

\* "LogYPlayer", text starting with OnRep_PlayerMatchState
PlayerMatchState(l) ==
    /\ task = "running"
    /\ l \in MatchStateLines
    /\ UNCHANGED <<in_game, server>>
    /\ IF ~is_in_game(in_game) \/ games = <<>> \/ l.state = {}
       THEN /\ UNCHANGED <<games, last_finished>>
            /\ Handled(l, <<>>, <<>>)
       ELSE IF l.state = {"inMatch"}
       THEN LET game == player_joined(games[1])
            IN  /\ games[1].total_players < MaxPlayers
                /\ games' = [games EXCEPT ![1] = game]
                /\ last_finished' = FALSE
                /\ Handled(l, <<TotalPlayerCountUpdate(game.total_players, {"games"})>>,
                           joined_beep(game))
       ELSE LET game == player_left(games[1])
            IN  /\ games' = [games EXCEPT ![1] = game]
                /\ last_finished' = IF games[1].total_players > 0 THEN TRUE ELSE last_finished
                /\ Handled(l, <<TotalPlayerCountUpdate(game.total_players, {"games"})>>,
                           left_beep(games[1], game))

\* the front game after a near player's character was destroyed
near_destroyed(game) ==
    IF game.near_players > 0 THEN [game EXCEPT !.near_players = @ - 1] ELSE game

\* "LogYPlayer", text starting with OnPlayerStateChanged or AYPlayerCharacter::Destroyed()
NearPlayer(l) ==
    /\ task = "running"
    /\ l \in NearLines
    /\ UNCHANGED <<in_game, server, last_finished>>
    /\ IF ~is_in_game(in_game) \/ games = <<>>
       THEN /\ UNCHANGED games
            /\ Handled(l, <<>>, <<>>)
       ELSE IF l.text = "OnPlayerStateChanged"
       THEN /\ games[1].near_players < MaxNear
            /\ games' = [games EXCEPT ![1].near_players = @ + 1]
            /\ Handled(l, <<NearPlayerCountUpdate(games[1].near_players + 1, {"games"})>>, <<>>)
       ELSE LET game == near_destroyed(games[1])
            IN  /\ games' = [games EXCEPT ![1] = game]
                /\ Handled(l, IF games[1].near_players > 0
                              THEN <<NearPlayerCountUpdate(game.near_players, {"games"})>>
                              ELSE <<>>, <<>>)

\* the fallback chain without the Fall case of the "Player" causer
resolve_weapon_without_fall(causer, origin_weapon) ==
    IF causer = {} THEN {}
    ELSE LET c == CHOOSE a \in causer : TRUE
         IN  CASE c.name = "None" -> Weapon_get("Suicide")
               [] c.name = "Player" -> origin_weapon
               [] OTHER -> {}

\* the weapon of a PlayerDead action, from the looked-up causer and origin weapon
resolve_weapon(causer, origin_weapon) ==
    IF causer = {} THEN {}
    ELSE LET c == CHOOSE a \in causer : TRUE
         IN  CASE c.name = "None" -> Weapon_get("Suicide")
               [] c.name = "Player" ->
                    IF {w.name : w \in origin_weapon} = {"None"}
                    THEN Weapon_get("Fall")
                    ELSE origin_weapon
               [] OTHER -> {}

\* "LogYPlayer", text starting with AYPlayerState::OnRep_PlayerMatchFinishedResult
MatchFinishedResult(l) ==
    /\ task = "running"
    /\ l \in ResultLines
    /\ UNCHANGED <<in_game, server, last_finished>>
    /\ IF ~is_in_game(in_game) \/ games = <<>> \/ l.result = {}
       THEN /\ UNCHANGED games
            /\ Handled(l, <<>>, <<>>)
       ELSE LET result == to_lowercase(CHOOSE r \in l.result : TRUE)
            IN  CASE result = "escaped" ->
                        /\ UNCHANGED games
                        /\ Handled(l, <<PlayerEscaped(l.time, 15, "Player escaped", {"games"})>>, <<>>)
                  [] result = "dead" ->
                        IF l.causer = {}
                        THEN UNCHANGED games /\ Panicked(l, {"games"})
                        ELSE LET causer_parts_spited == CHOOSE p \in l.causer : TRUE
                                 causer == Actor_get(causer_parts_spited[1])
                                 origin_weapon == UNION {Weapon_get(s) : s \in l.origin}
                                 damage == UNION {parse_f32(s) : s \in l.damage}
                             IN  IF damage = {} \/ Len(causer_parts_spited) < 2
                                 THEN UNCHANGED games /\ Panicked(l, {"games"})
                                 ELSE /\ kill(games[1], causer_parts_spited[2]) <= MaxKills
                                      /\ games' = [games EXCEPT
                                            ![1] = killed(games[1], causer_parts_spited[2])]
                                      /\ Handled(l,
                                            <<PlayerDead(l.time, 15, causer,
                                                kill(games[1], causer_parts_spited[2]),
                                                resolve_weapon(causer, origin_weapon),
                                                CHOOSE d \in damage : TRUE, {"games"})>>,
                                            <<>>)
                  [] OTHER ->
                        /\ UNCHANGED games
                        /\ Handled(l, <<>>, <<>>)

\* the LogYInventory arm without the reset of last_finished
InventoryMatchStateRepeating(l) ==
    /\ task = "running"
    /\ l \in InventoryLines
    /\ UNCHANGED <<in_game, server, last_finished>>
    /\ IF ~is_in_game(in_game) \/ ~last_finished \/ games = <<>>
       THEN /\ UNCHANGED games
            /\ Handled(l, <<>>, <<>>)
       ELSE /\ games[1].total_players < MaxPlayers
            /\ games' = [games EXCEPT ![1].total_players = @ + 1]
            /\ Handled(l, <<TotalPlayerCountUpdate(games[1].total_players + 1, {"games"})>>, <<>>)

\* "LogYInventory" while last_finished, text starting with
\* GetInventoryComponentManager | Could not retrieve YGameStateMatch!
InventoryMatchState(l) ==
    /\ task = "running"
    /\ l \in InventoryLines
    /\ UNCHANGED <<in_game, server>>
    /\ IF ~is_in_game(in_game) \/ ~last_finished \/ games = <<>>
       THEN /\ UNCHANGED <<games, last_finished>>
            /\ Handled(l, <<>>, <<>>)
       ELSE /\ games[1].total_players < MaxPlayers
            /\ games' = [games EXCEPT ![1].total_players = @ + 1]
            /\ last_finished' = FALSE
            /\ Handled(l, <<TotalPlayerCountUpdate(games[1].total_players + 1, {"games"})>>, <<>>)

----------------------------------------------------------------------------
(* parsers::activities::Parser::parse *)

Activity(l) ==
    /\ task = "running"
    /\ l \in ActivityLines
    /\ UNCHANGED <<games, in_game, server, last_finished>>
    /\ IF ~is_in_game(in_game)
       THEN Handled(l, <<>>, <<>>)
       ELSE IF l.text = "Warning: AC_EvacShip_BP"
       THEN Handled(l, <<EvacShipCalled(l.time, 86, "Evac ship [called]", {})>>, <<>>)
       ELSE Handled(l, <<MeteorsEvent(l.time, 45, "Meteors event!", {})>>, <<>>)

\* a line whose type and text select no arm of any parser
Other(l) ==
    /\ task = "running"
    /\ l \in OtherLines
    /\ UNCHANGED <<games, in_game, server, last_finished>>
    /\ Handled(l, <<>>, <<>>)

----------------------------------------------------------------------------
(* parsers::listener::Listener::handle on a raw line.  A raw line is the   *)
(* text between its first brackets, the text between its second brackets   *)
(* and the decoded line its remainder gives when the pattern matches       *)

Stamps == {"2023.05.01-10.00.00:000", "2023.13.01-10.00.00:000", "2023-05-01 10:00:00"}
Frames == {"  1", "1234"}

RawLine(stamp, frame, rest) ==
    [type |-> "raw", text |-> "raw", stamp |-> stamp, frame |-> frame, rest |-> rest]

\* the remainders of the raw lines: a non-match travel line and a line no
\* parser has an arm for
RawRests ==
    {TravelLine(t, {"0"}, {}, {}) : t \in Times} \cup {OtherLine(t, "LogOther") : t \in Times}

RawLines == {RawLine(s, f, r) : s \in Stamps, f \in Frames, r \in RawRests}

\* \d{4}\.\d{2}\.\d{2}-\d{2}\.\d{2}\.\d{2}:\d{3} on the stamps of the model
stamp_pattern(stamp) ==
    CASE stamp = "2023.05.01-10.00.00:000" -> TRUE
      [] stamp = "2023.13.01-10.00.00:000" -> TRUE
      [] OTHER -> FALSE

\* .{3} on the frames of the model
frame_pattern(frame) ==
    CASE frame = "  1" -> TRUE
      [] OTHER -> FALSE

\* line_pattern.captures that accepts a frame of any length
captures_any_frame(raw) ==
    IF stamp_pattern(raw.stamp) THEN {raw} ELSE {}

\* line_pattern.captures: {} when the line does not match
captures(raw) ==
    IF stamp_pattern(raw.stamp) /\ frame_pattern(raw.frame) THEN {raw} ELSE {}

\* datetime_from_str with the format %Y.%m.%d-%H.%M.%S:%3f; {} is the Err
\* the caller unwraps
datetime_from_str(stamp) ==
    CASE stamp = "2023.05.01-10.00.00:000" -> {100}
      [] OTHER -> {}

\* the parsers of Listener::new, in the order of the vector
parsers == <<"activities", "player", "server">>

\* handle has found the three groups of the pattern in l and a date in the
\* first: l is a line with its type and text, or the head of a line that
\* ends in the text
decoded(l) ==
    IF "part" \in DOMAIN l
    THEN /\ l.part = "head"
         /\ l.cut = "text"
         /\ captures(l.of) # {}
         /\ datetime_from_str(l.of.stamp) # {}
    ELSE l.type # "raw"

\* the parsers the loop of handle has called for the line handled last, one
\* after the other: a panic of a parser unwinds out of the loop, so that the
\* parsers behind it are not called; the arms of "LogYPlayer" lines that
\* panic are those of the player parser, the others those of the server parser
called ==
    IF \A l \in line : ~decoded(l) THEN <<>>
    ELSE IF task = "running" THEN parsers
    ELSE IF \E l \in line : l.type = "LogYPlayer" THEN SubSeq(parsers, 1, 2)
    ELSE parsers

\* handle that skips a line whose timestamp is no date
Handle_skip(raw) ==
    /\ task = "running"
    /\ raw \in RawLines
    /\ IF captures(raw) = {} \/ datetime_from_str(raw.stamp) = {}
       THEN /\ UNCHANGED <<games, in_game, server, last_finished>>
            /\ Handled(raw, <<>>, <<>>)
       ELSE IF raw.rest \in TravelLines
       THEN TravelToServer(raw.rest)
       ELSE Other(raw.rest)

Handle(raw) ==
    /\ task = "running"
    /\ raw \in RawLines
    /\ IF captures(raw) = {}
       THEN /\ UNCHANGED <<games, in_game, server, last_finished>>
            /\ Handled(raw, <<>>, <<>>)
       ELSE IF datetime_from_str(raw.stamp) = {}
       THEN /\ UNCHANGED <<games, in_game, server, last_finished>>
            /\ Panicked(raw, {})
       ELSE IF raw.rest \in TravelLines
       THEN TravelToServer(raw.rest)
       ELSE Other(raw.rest)

----------------------------------------------------------------------------
(* parsers::listener::Listener::process_log_file: the read loop on the     *)
(* open file, to which the game appends lines                              *)

\* the lines the game writes: one that is handled, one that does not match
\* the pattern and one whose timestamp is no date
TailLines ==
    {RawLine("2023.05.01-10.00.00:000", "  1", TravelLine(100, {"0"}, {}, {})),
     RawLine("2023-05-01 10:00:00", "  1", TravelLine(100, {"0"}, {}, {})),
     RawLine("2023.13.01-10.00.00:000", "  1", TravelLine(100, {"0"}, {}, {}))}

\* tokio::fs::File::open succeeded
Opened == [pc |-> "read", file |-> <<>>, pos |-> 0, errors |-> 0]

\* the game appends a line to the file
AppendLine(raw) ==
    /\ tail.pc # "off"
    /\ Len(tail.file) < MaxFile
    /\ tail' = [tail EXCEPT !.file = Append(@, raw)]
    /\ UNCHANGED <<games, in_game, server, last_finished, task, poisoned, line, before,
                   out, alerts, scen, call, joined, overlay, locks, deaths>>

\* next_line gives Ok(Some(text)): the line is handled
NextLine ==
    /\ tail.pc = "read"
    /\ tail.pos < Len(tail.file)
    /\ Handle(tail.file[tail.pos + 1])

\* the places where the game may end a write inside a line: in the
\* timestamp, or in the text behind the type
Cuts == {"stamp", "text"}

\* the bytes of the line raw before (part "head") and behind (part "tail")
\* the cut
Fragment(raw, part, cut) == [part |-> part, cut |-> cut, of |-> raw]

\* the file ends with the head of a line whose rest is not written yet
PartPending ==
    /\ tail.file # <<>>
    /\ "part" \in DOMAIN tail.file[Len(tail.file)]
    /\ tail.file[Len(tail.file)].part = "head"

\* the game writes the first bytes of a line, without its end of line
AppendPart(raw, cut) ==
    /\ tail.pc # "off"
    /\ Len(tail.file) < MaxFile
    /\ ~PartPending
    /\ tail' = [tail EXCEPT !.file = Append(@, Fragment(raw, "head", cut))]
    /\ UNCHANGED <<games, in_game, server, last_finished, task, poisoned, line, before,
                   out, alerts, scen, call, joined, overlay, locks, deaths>>

\* the game writes the rest of the line and its end of line: the file holds
\* the whole line if the reader has not passed its head, and the rest as
\* the next thing to read if it has
AppendRest ==
    /\ tail.pc # "off"
    /\ PartPending
    /\ LET head == tail.file[Len(tail.file)]
       IN  tail' = [tail EXCEPT !.file =
                        IF tail.pos < Len(tail.file)
                        THEN [@ EXCEPT ![Len(tail.file)] = head.of]
                        ELSE Append(@, Fragment(head.of, "tail", head.cut))]
    /\ UNCHANGED <<games, in_game, server, last_finished, task, poisoned, line, before,
                   out, alerts, scen, call, joined, overlay, locks, deaths>>

\* Listener::handle on a part of a line: the pattern finds its three groups
\* only in a head that ends in the text, and the text left selects no arm
HandleFragment(frag) ==
    /\ task = "running"
    /\ UNCHANGED <<games, in_game, server, last_finished>>
    /\ IF /\ frag.part = "head"
          /\ frag.cut = "text"
          /\ captures(frag.of) # {}
          /\ datetime_from_str(frag.of.stamp) = {}
       THEN Panicked(frag, {})
       ELSE Handled(frag, <<>>, <<>>)

\* next_line gives Ok(Some(text)) with the bytes up to the end of the file
\* when they do not end a line, and with the bytes behind them at the next call
NextFragment ==
    /\ tail.pc = "read"
    /\ tail.pos < Len(tail.file)
    /\ "part" \in DOMAIN tail.file[tail.pos + 1]
    /\ HandleFragment(tail.file[tail.pos + 1])

\* next_line gives Ok(None): the loop sleeps 100 ms
EndOfFile ==
    /\ task = "running"
    /\ tail.pc = "read"
    /\ tail.pos = Len(tail.file)
    /\ tail' = [tail EXCEPT !.pc = "sleep"]
    /\ UNCHANGED <<games, in_game, server, last_finished, task, poisoned, line, before,
                   out, alerts, scen, call, joined, overlay, locks, deaths>>

\* the sleep is over: the loop calls next_line again
Wake ==
    /\ task = "running"
    /\ tail.pc = "sleep"
    /\ tail' = [tail EXCEPT !.pc = "read"]
    /\ UNCHANGED <<games, in_game, server, last_finished, task, poisoned, line, before,
                   out, alerts, scen, call, joined, overlay, locks, deaths>>

\* next_line gives Err(e): the error is logged and the loop goes on
ReadError ==
    /\ task = "running"
    /\ tail.pc = "read"
    /\ tail.errors < MaxErrors
    /\ tail' = [tail EXCEPT !.errors = @ + 1]
    /\ UNCHANGED <<games, in_game, server, last_finished, task, poisoned, line, before,
                   out, alerts, scen, call, joined, overlay, locks, deaths>>

----------------------------------------------------------------------------
(* overlay: the server block asks the store how many games ago the player  *)
(* was in the front game; the overlay runs beside the parsing task, so the *)
(* call finds the store as any handled line has left it                    *)

GamesAgo ==
    /\ call' = [fn |-> "games_ago", history |-> games, result |-> games_ago(games)]
    /\ UNCHANGED <<games, in_game, server, last_finished, task, poisoned, line, before,
                   out, alerts, scen, tail, joined, overlay, locks, deaths>>

\* overlay::blocks::Server::on_state_update
Server_on_state_update(block, game, gs) ==
    IF game # {}
    THEN LET g == CHOOSE x \in game : TRUE
             n == games_ago(gs)
         IN  [block EXCEPT !.party_size = g.party_size,
                           !.session_name = IF n # {} THEN <<g.name, CHOOSE x \in n : TRUE>>
                                            ELSE <<g.name>>,
                           !.visible = TRUE]
    ELSE [block EXCEPT !.visible = FALSE]

\* overlay::blocks::Time::on_state_update
Time_on_state_update(block, game) ==
    IF game # {}
    THEN LET g == CHOOSE x \in game : TRUE
         IN  [block EXCEPT !.map = {g.map},
                           !.game_start = g.created_at * 1000 - g.map.timings.morning,
                           !.game_end = g.created_at * 1000 + 6 * 3600 * 1000,
                           !.visible = TRUE]
    ELSE [block EXCEPT !.visible = FALSE]

\* overlay::blocks::Log::post
Log_post(log, event) == Append(log, event)

\* overlay::blocks::Log::on_state_update
Log_on_state_update(log, game) == IF game = {} THEN <<>> ELSE log

\* the event loop takes the next user event from its queue; the lock of the
\* games list in games_ago panics the thread when the mutex is poisoned
UserEvent ==
    /\ overlay.pc = "run"
    /\ overlay.queue # <<>>
    /\ LET q == Head(overlay.queue)
           e == q.event
           asked == e.kind = "UpdateState" /\ e.game # {}
           taken == [overlay EXCEPT
                        !.queue = Tail(@),
                        !.handled = {[event |-> e, inserted_ago |-> q.inserted_ago,
                                      ago |-> IF asked THEN <<games_ago(games)>> ELSE <<>>]}]
       IN  overlay' =
             CASE e.kind = "TotalPlayerCountUpdate" ->
                    [taken EXCEPT !.server_block.total_players = e.count]
               [] e.kind = "NearPlayerCountUpdate" ->
                    [taken EXCEPT !.server_block.near_players = e.count]
               [] e.kind \in {"EvacShipCalled", "MeteorsEvent", "PlayerEscaped", "PlayerDead"} ->
                    [taken EXCEPT !.event_block = Log_post(@, e)]
               [] e.kind = "UpdateState" ->
                    IF asked /\ "games" \in poisoned
                    THEN [overlay EXCEPT !.pc = "panicked"]
                    ELSE [taken EXCEPT
                            !.server_block = Server_on_state_update(@, e.game, games),
                            !.time_block = Time_on_state_update(@, e.game),
                            !.event_block = Log_on_state_update(@, e.game)]
    /\ UNCHANGED <<games, in_game, server, last_finished, task, poisoned, line, before,
                   out, alerts, scen, call, tail, joined, locks, deaths>>

----------------------------------------------------------------------------
(* the mutexes of StateHolder and of the event loop proxy: each call is the *)
(* sequence of its lock() calls and of the drops of its guards             *)

Mutexes == {"in_game", "games", "sender"}

Threads == {"task", "loop"}

lock(m) == [op |-> "lock", mutex |-> m]

\* the guard of m goes out of scope
unlock(m) == [op |-> "unlock", mutex |-> m]

\* leave_game: the guards are dropped in the reverse order of their declaration
leave_game_locks == <<lock("in_game"), lock("games"), unlock("games"), unlock("in_game")>>

\* set_game
set_game_locks == <<lock("in_game"), lock("games"), unlock("games"), unlock("in_game")>>

\* is_in_game: the guard is a temporary of the return expression
is_in_game_locks == <<lock("in_game"), unlock("in_game")>>

\* games_ago that reads the in-game flag while it holds the games list
games_ago_locks_flag ==
    <<lock("games"), lock("in_game"), unlock("in_game"), unlock("games")>>

\* games_ago
games_ago_locks == <<lock("games"), unlock("games")>>

\* let sender = event_loop_proxy.lock().unwrap(); sender.send_event(..)
send_event_locks == <<lock("sender"), unlock("sender")>>

\* the calls of the parsers for one line; an UpdateState(Some) is sent by
\* the welcomed arm only
TaskPrograms ==
    {[steps |-> leave_game_locks \o send_event_locks, update |-> FALSE],
     [steps |-> set_game_locks \o send_event_locks, update |-> TRUE],
     [steps |-> is_in_game_locks, update |-> FALSE],
     [steps |-> is_in_game_locks \o <<lock("games"), unlock("games")>>, update |-> FALSE],
     [steps |-> is_in_game_locks \o <<lock("games")>> \o send_event_locks
                    \o <<unlock("games")>>, update |-> FALSE],
     [steps |-> is_in_game_locks \o send_event_locks, update |-> FALSE]}

\* the threads after StateHolder::new: no mutex is held, no call is going
\* on, no UpdateState(Some) waits in the queue of the event loop
LocksFree ==
    [pc |-> "on",
     owner |-> [m \in Mutexes |-> "none"],
     todo |-> [th \in Threads |-> <<>>],
     update |-> FALSE,
     pending |-> 0]

\* the thread th is at a lock() of a mutex that is held
Blocked(th) ==
    /\ locks.pc = "on"
    /\ locks.todo[th] # <<>>
    /\ Head(locks.todo[th]).op = "lock"
    /\ locks.owner[Head(locks.todo[th]).mutex] # "none"

\* a parser of the parsing task starts the calls of a line
TaskCalls(program) ==
    /\ locks.pc = "on"
    /\ locks.todo["task"] = <<>>
    /\ program \in TaskPrograms
    /\ program.update => locks.pending < MaxQueue
    /\ locks' = [locks EXCEPT !.todo["task"] = program.steps, !.update = program.update]
    /\ UNCHANGED <<games, in_game, server, last_finished, task, poisoned, line, before,
                   out, alerts, scen, call, tail, joined, overlay, deaths>>

\* the event loop takes an UpdateState(Some) from its queue: the server
\* block calls games_ago
LoopCalls ==
    /\ locks.pc = "on"
    /\ locks.todo["loop"] = <<>>
    /\ locks.pending > 0
    /\ locks' = [locks EXCEPT !.todo["loop"] = games_ago_locks, !.pending = @ - 1]
    /\ UNCHANGED <<games, in_game, server, last_finished, task, poisoned, line, before,
                   out, alerts, scen, call, tail, joined, overlay, deaths>>

\* lock() returns: the mutex is free and th takes it
Lock(th) ==
    /\ locks.pc = "on"
    /\ locks.todo[th] # <<>>
    /\ Head(locks.todo[th]).op = "lock"
    /\ locks.owner[Head(locks.todo[th]).mutex] = "none"
    /\ locks' = [locks EXCEPT !.owner[Head(locks.todo[th]).mutex] = th,
                              !.todo[th] = Tail(@)]
    /\ UNCHANGED <<games, in_game, server, last_finished, task, poisoned, line, before,
                   out, alerts, scen, call, tail, joined, overlay, deaths>>

\* a guard of th is dropped; the drop of the sender's guard follows
\* send_event, which has put the action in the queue of the event loop
Unlock(th) ==
    /\ locks.pc = "on"
    /\ locks.todo[th] # <<>>
    /\ Head(locks.todo[th]).op = "unlock"
    /\ LET m == Head(locks.todo[th]).mutex
           sent == th = "task" /\ m = "sender" /\ locks.update
       IN  locks' = [locks EXCEPT !.owner[m] = "none",
                                 !.todo[th] = Tail(@),
                                 !.pending = IF sent THEN @ + 1 ELSE @,
                                 !.update = IF sent THEN FALSE ELSE @]
    /\ UNCHANGED <<games, in_game, server, last_finished, task, poisoned, line, before,
                   out, alerts, scen, call, tail, joined, overlay, deaths>>

\* a parser extracts a field of a text: the call returns
SubstringBetween ==
    /\ call.fn = "substring_between"
    /\ ~call.returned
    /\ call' = [call EXCEPT !.returned = TRUE,
                            !.result = substring_between(call.text, call.start, call.end)]
    /\ UNCHANGED <<games, in_game, server, last_finished, task, poisoned, line, before,
                   out, alerts, scen, tail, joined, overlay, locks, deaths>>

----------------------------------------------------------------------------
(* parsers::listener: the lines of the log are handled one after another.  *)
(* Spec: the log of a player who joins and leaves matches of one server     *)
(* instance; every line is well formed.                                     *)

SessionLines ==
    {TravelLine(t, {"0"}, {}, {}) : t \in Times}
    \cup {TravelLine(t, {"1"}, {"a-1f"}, {"eu"}) : t \in Times}
    \cup {ForcingLine(t, {"3"}) : t \in Times}
    \cup {WelcomedLine(t, {"MAP01"}) : t \in Times}

PlayerLines ==
    MatchStateLines \cup NearLines \cup InventoryLines
    \cup {ResultLine(t, r, {}, {}, {}) : t \in Times, r \in {{}, {"Escaped"}, {"Unknown"}}}
    \cup {ResultLine(t, {"Dead"}, {<<"PRO_PlayerCharacter", "7">>},
                     {"WP_E_Pistol_Bullet_01"}, {"50.0"}) : t \in Times}

Next ==
    \/ \E l \in SessionLines \cap TravelLines : TravelToServer(l)
    \/ \E l \in SessionLines \cap ForcingLines : ForcingTransition(l)
    \/ \E l \in SessionLines \cap WelcomedLines : WelcomedByServer(l)
    \/ \E l \in PlayerLines \cap MatchStateLines : PlayerMatchState(l)
    \/ \E l \in PlayerLines \cap NearLines : NearPlayer(l)
    \/ \E l \in PlayerLines \cap ResultLines : MatchFinishedResult(l)
    \/ \E l \in PlayerLines \cap InventoryLines : InventoryMatchState(l)
    \/ \E l \in ActivityLines : Activity(l)
    \/ \E l \in {OtherLine(t, "LogOther") : t \in Times} : Other(l)

Spec == Init /\ [][Next]_vars

----------------------------------------------------------------------------
(* SpecStore: the log of a player who moves between two server instances    *)
(* and comes back; the player lines are those that change the counters.     *)

StoreLines ==
    {TravelLine(t, {"0"}, {}, {}) : t \in Times}
    \cup {TravelLine(t, {"1"}, {id}, {"eu"}) : t \in Times, id \in {"a-1f", "b-2e"}}
    \cup {WelcomedLine(t, {"MAP01"}) : t \in Times}
    \cup {MatchStateLine(t, {"inMatch"}) : t \in Times}
    \cup {NearLine(t, "OnPlayerStateChanged") : t \in Times}
    \cup {ResultLine(t, {"Dead"}, {<<"PRO_PlayerCharacter", "7">>},
                     {"WP_E_Pistol_Bullet_01"}, {"50.0"}) : t \in Times}

NextStore ==
    \/ \E l \in StoreLines \cap TravelLines : TravelToServer(l)
    \/ \E l \in StoreLines \cap WelcomedLines : WelcomedByServer(l)
    \/ \E l \in StoreLines \cap MatchStateLines : PlayerMatchState(l)
    \/ \E l \in StoreLines \cap NearLines : NearPlayer(l)
    \/ \E l \in StoreLines \cap ResultLines : MatchFinishedResult(l)

SpecStore == Init /\ [][NextStore]_vars

----------------------------------------------------------------------------
(* SpecGamesAgo: the log of SpecStore, with the overlay asking games_ago   *)
(* between the lines                                                        *)

NextGamesAgo ==
    \/ NextStore
    \/ GamesAgo

SpecGamesAgo == Init /\ [][NextGamesAgo]_vars

----------------------------------------------------------------------------
(* SpecSubstring: substring_between on every text and pair of delimiters   *)

InitSubstring ==
    /\ Constructed
    /\ tail = TailOff
    /\ Untracked
    /\ call \in {[fn |-> "substring_between", text |-> text, start |-> start, end |-> end,
                   returned |-> FALSE, result |-> {}] :
                    text \in Strings(MaxText), start \in Strings(MaxDelim),
                    end \in Strings(MaxDelim)}

NextSubstring == SubstringBetween

SpecSubstring == InitSubstring /\ [][NextSubstring]_vars

----------------------------------------------------------------------------
(* SpecRaw: a log in which lines that do not match the line pattern, or    *)
(* whose timestamp is no date, arrive before, in and after a game          *)

RawSessionLines ==
    {TravelLine(t, {"1"}, {"a-1f"}, {"eu"}) : t \in Times}
    \cup {WelcomedLine(t, {"MAP01"}) : t \in Times}
    \cup {MatchStateLine(t, s) : t \in Times, s \in {{"inMatch"}, {"finished"}}}

NextRaw ==
    \/ \E l \in RawSessionLines \cap TravelLines : TravelToServer(l)
    \/ \E l \in RawSessionLines \cap WelcomedLines : WelcomedByServer(l)
    \/ \E l \in RawSessionLines \cap MatchStateLines : PlayerMatchState(l)
    \/ \E raw \in RawLines : Handle(raw)

SpecRaw == Init /\ [][NextRaw]_vars

----------------------------------------------------------------------------
(* SpecTail: the read loop on a file the game appends to; the runtime runs *)
(* the task whenever it can take a step                                    *)

InitTail == Constructed /\ call = NoCall /\ tail = Opened /\ Untracked

NextTail ==
    \/ \E raw \in TailLines : AppendLine(raw)
    \/ NextLine
    \/ EndOfFile
    \/ Wake
    \/ ReadError

SpecTail ==
    /\ InitTail
    /\ [][NextTail]_vars
    /\ WF_vars(NextLine)
    /\ WF_vars(EndOfFile)
    /\ WF_vars(Wake)

\* SpecTailParts: the same with a game that may write a line in two writes
NextTailParts ==
    \/ \E raw \in TailLines : ~PartPending /\ AppendLine(raw)
    \/ \E raw \in TailLines, cut \in Cuts : AppendPart(raw, cut)
    \/ AppendRest
    \/ NextLine
    \/ NextFragment
    \/ EndOfFile
    \/ Wake

SpecTailParts ==
    /\ InitTail
    /\ [][NextTailParts]_vars
    /\ WF_vars(NextLine)
    /\ WF_vars(NextFragment)
    /\ WF_vars(EndOfFile)
    /\ WF_vars(Wake)

\* SpecTailDated: the same with a game that writes no line whose timestamp
\* is no date
NextTailDated ==
    \/ \E raw \in {r \in TailLines : captures(r) = {} \/ datetime_from_str(r.stamp) # {}} :
            AppendLine(raw)
    \/ NextLine
    \/ EndOfFile
    \/ Wake
    \/ ReadError

SpecTailDated ==
    /\ InitTail
    /\ [][NextTailDated]_vars
    /\ WF_vars(NextLine)
    /\ WF_vars(EndOfFile)
    /\ WF_vars(Wake)

----------------------------------------------------------------------------
(* main: the check that the game log exists, the spawn of the parsing task *)
(* and the run of the overlay; process_log_file opens the file in the task *)

\* main after get_log_path: exists tells whether the file is there, exit
\* holds the code the process has ended with
Started(exists) ==
    [pc |-> "check", exists |-> exists, exit |-> {}, file |-> <<>>, pos |-> 0, errors |-> 0]

InitStartup ==
    /\ games = <<>>
    /\ in_game = FALSE
    /\ server = ServerDefault
    /\ last_finished = FALSE
    /\ task = "unspawned"
    /\ poisoned = {}
    /\ line = {}
    /\ before = [games |-> <<>>, in_game |-> FALSE, server |-> ServerDefault,
                 last_finished |-> FALSE]
    /\ out = <<>>
    /\ alerts = <<>>
    /\ scen = <<>>
    /\ call = NoCall
    /\ tail \in {Started(e) : e \in BOOLEAN}
    /\ Untracked

\* if !log_path.exists() { std::process::exit(-1) }
ExistenceCheck ==
    /\ tail.pc = "check"
    /\ tail' = IF tail.exists
               THEN [tail EXCEPT !.pc = "main"]
               ELSE [tail EXCEPT !.pc = "exited", !.exit = {-1}]
    /\ UNCHANGED <<games, in_game, server, last_finished, task, poisoned, line, before,
                   out, alerts, scen, call, joined, overlay, locks, deaths>>

\* the rest of main: the task is spawned on its own runtime, the overlay is
\* created and its event loop runs
SpawnAndRun ==
    /\ tail.pc = "main"
    /\ tail' = [tail EXCEPT !.pc = "open"]
    /\ task' = "running"
    /\ overlay' = Overlay_new
    /\ UNCHANGED <<games, in_game, server, last_finished, poisoned, line, before,
                   out, alerts, scen, call, joined, locks, deaths>>

\* the file is removed or renamed by another process before it is opened
FileRemoved ==
    /\ tail.pc \in {"check", "main", "open"}
    /\ tail.exists
    /\ tail' = [tail EXCEPT !.exists = FALSE]
    /\ UNCHANGED <<games, in_game, server, last_finished, task, poisoned, line, before,
                   out, alerts, scen, call, joined, overlay, locks, deaths>>

\* tokio::fs::File::open: Ok(file) enters the read loop, Err(e) is logged
\* ("Log file not found") and process_log_file returns
OpenFile ==
    /\ tail.pc = "open"
    /\ task = "running"
    /\ IF tail.exists
       THEN /\ tail' = [tail EXCEPT !.pc = "read"]
            /\ UNCHANGED task
       ELSE /\ tail' = [tail EXCEPT !.pc = "closed"]
            /\ task' = "returned"
    /\ UNCHANGED <<games, in_game, server, last_finished, poisoned, line, before,
                   out, alerts, scen, call, joined, overlay, locks, deaths>>

NextStartup ==
    \/ ExistenceCheck
    \/ SpawnAndRun
    \/ FileRemoved
    \/ OpenFile
    \/ \E raw \in TailLines : tail.pc \in {"read", "sleep"} /\ AppendLine(raw)
    \/ NextLine
    \/ EndOfFile
    \/ Wake
    \/ UserEvent

SpecStartup == InitStartup /\ [][NextStartup]_vars

----------------------------------------------------------------------------
(* SpecHolding: the log of a player who travels to matches and back, with  *)
(* challenge responses and welcomed lines at any point                     *)

HoldingLines ==
    {TravelLine(t, {"0"}, {}, {}) : t \in Times}
    \cup {TravelLine(t, {"1"}, {"a-1f"}, {"eu"}) : t \in Times}
    \cup {HandshakeLine(t, {s}) : t \in Times, s \in {"5", "10"}}
    \cup {WelcomedLine(t, {m}) : t \in Times, m \in {"MAP01", "Unknown"}}
    \cup {MatchStateLine(t, {"inMatch"}) : t \in Times}

NextHolding ==
    \/ \E l \in HoldingLines \cap TravelLines : TravelToServer(l)
    \/ \E l \in HoldingLines \cap HandshakeLines : SendChallengeResponse(l)
    \/ \E l \in HoldingLines \cap WelcomedLines : WelcomedByServer(l)
    \/ \E l \in HoldingLines \cap MatchStateLines : PlayerMatchState(l)

SpecHolding == Init /\ [][NextHolding]_vars

----------------------------------------------------------------------------
(* SpecMalformed: a log with lines whose fields are missing or malformed,   *)
(* and the well-formed lines that lead the parsers to the arms reading them *)

MalformedLines ==
    {TravelLine(t, {"1"}, id, r) : t \in Times,
        id \in {{"a-1f"}, {"d-zz"}, {}}, r \in {{"eu"}, {}}}
    \cup {ForcingLine(t, s) : t \in Times, s \in {{"3"}, {"x"}}}
    \cup {HandshakeLine(t, s) : t \in Times, s \in {{"10"}, {"x"}, {}}}
    \cup {WelcomedLine(t, m) : t \in Times, m \in {{"MAP01"}, {}}}
    \cup {ResultLine(t, {"Dead"}, c, {"None"}, d) : t \in Times,
            c \in {{<<"None", "7">>}, {<<"None">>}, {}}, d \in {{"50.0"}, {"x"}, {}}}

NextMalformed ==
    \/ \E l \in MalformedLines \cap TravelLines : TravelToServer(l)
    \/ \E l \in MalformedLines \cap ForcingLines : ForcingTransition(l)
    \/ \E l \in MalformedLines \cap HandshakeLines : SendChallengeResponse(l)
    \/ \E l \in MalformedLines \cap WelcomedLines : WelcomedByServer(l)
    \/ \E l \in MalformedLines \cap ResultLines : MatchFinishedResult(l)

SpecMalformed == Init /\ [][NextMalformed]_vars

----------------------------------------------------------------------------
(* SpecScenarioA: the logs that are a prefix of scenario A *)

NextScenarioA ==
    \/ \E l \in TravelLines : TravelToServer(l) /\ scen' # ScenOff
    \/ \E l \in ForcingLines : ForcingTransition(l) /\ scen' # ScenOff
    \/ \E l \in HandshakeLines : SendChallengeResponse(l) /\ scen' # ScenOff
    \/ \E l \in WelcomedLines : WelcomedByServer(l) /\ scen' # ScenOff

SpecScenarioA == Init /\ [][NextScenarioA]_vars

----------------------------------------------------------------------------
(* SpecDead: the log of a player who sees deaths by every kind of causer    *)
(* and origin weapon in the matches of one server instance                  *)

DeadLines ==
    {ResultLine(t, {"Dead"}, {<<c, "7">>}, o, {"50.0"}) :
        t \in Times, c \in Causers, o \in Opt(Origins)}

DeadSessionLines ==
    {TravelLine(t, {"0"}, {}, {}) : t \in Times}
    \cup {TravelLine(t, {"1"}, {"a-1f"}, {"eu"}) : t \in Times}
    \cup {WelcomedLine(t, {"MAP01"}) : t \in Times}

NextDead ==
    \/ \E l \in DeadSessionLines \cap TravelLines : TravelToServer(l)
    \/ \E l \in DeadSessionLines \cap WelcomedLines : WelcomedByServer(l)
    \/ \E l \in DeadLines : MatchFinishedResult(l)

SpecDead == Init /\ [][NextDead]_vars

----------------------------------------------------------------------------
(* the line handled last, for the properties below *)

\* the line was handled while the in-game flag was set
InGameBefore == line # {} /\ before.in_game

JoinedLine ==
    \E l \in line : l.text = "OnRep_PlayerMatchState" /\ l.state = {"inMatch"}

LeftLine ==
    \E l \in line : l.text = "OnRep_PlayerMatchState" /\ l.state \notin {{}, {"inMatch"}}

DestroyedLine == \E l \in line : l.text = "AYPlayerCharacter::Destroyed()"

NonMatchTravelLine ==
    \E l \in line :
        l.text = "UYControllerTravelComponent::TravelToServer" /\ l.is_match = {"0"}

----------------------------------------------------------------------------
(* SpecOverlay: the parsing task handles the lines of a player who joins    *)
(* and leaves matches of one server instance while the event loop of the   *)
(* overlay takes the events from its queue, each thread at its own pace.   *)

InitOverlay ==
    /\ Constructed
    /\ call = NoCall
    /\ tail = TailOff
    /\ joined = JoinedOff
    /\ overlay = Overlay_new
    /\ locks = LocksOff
    /\ deaths = DeathsOff

OverlayLines ==
    {TravelLine(t, {"0"}, {}, {}) : t \in Times}
    \cup {TravelLine(t, {"1"}, {"a-1f"}, {"eu"}) : t \in Times}
    \cup {WelcomedLine(t, {"MAP01"}) : t \in Times}
    \cup {MatchStateLine(t, {"inMatch"}) : t \in Times}
    \cup {NearLine(t, "OnPlayerStateChanged") : t \in Times}

NextOverlay ==
    \/ \E l \in OverlayLines \cap TravelLines : TravelToServer(l)
    \/ \E l \in OverlayLines \cap WelcomedLines : WelcomedByServer(l)
    \/ \E l \in OverlayLines \cap MatchStateLines : PlayerMatchState(l)
    \/ \E l \in OverlayLines \cap NearLines : NearPlayer(l)
    \/ UserEvent

SpecOverlay == InitOverlay /\ [][NextOverlay]_vars

----------------------------------------------------------------------------
(* SpecJoined: the log of a player whose matches others join and leave; the *)
(* 'inMatch' lines are counted from the insertion of the front game on.     *)

InitJoined ==
    /\ Constructed
    /\ call = NoCall
    /\ tail = TailOff
    /\ joined = {0}
    /\ overlay = OverlayOff
    /\ locks = LocksOff
    /\ deaths = DeathsOff

JoinedLines ==
    {TravelLine(t, {"0"}, {}, {}) : t \in Times}
    \cup {TravelLine(t, {"1"}, {"a-1f"}, {"eu"}) : t \in Times}
    \cup {WelcomedLine(t, {"MAP01"}) : t \in Times}
    \cup {MatchStateLine(t, {s}) : t \in Times, s \in PlayerStates}
    \cup InventoryLines

NextJoined ==
    \/ \E l \in JoinedLines \cap TravelLines : TravelToServer(l)
    \/ \E l \in JoinedLines \cap WelcomedLines : WelcomedByServer(l)
    \/ \E l \in JoinedLines \cap MatchStateLines : PlayerMatchState(l)
    \/ \E l \in JoinedLines \cap InventoryLines : InventoryMatchState(l)

SpecJoined == InitJoined /\ [][NextJoined]_vars

----------------------------------------------------------------------------
(* SpecLocks: the parsing task and the event loop of the overlay take and  *)
(* release the mutexes, step by step; a thread that can take a step takes  *)
(* it at some time (the operating system runs both threads).               *)

InitLocks ==
    /\ Constructed
    /\ call = NoCall
    /\ tail = TailOff
    /\ joined = JoinedOff
    /\ overlay = OverlayOff
    /\ locks = LocksFree
    /\ deaths = DeathsOff

NextLocks ==
    \/ \E program \in TaskPrograms : TaskCalls(program)
    \/ LoopCalls
    \/ \E th \in Threads : Lock(th)
    \/ \E th \in Threads : Unlock(th)

SpecLocks ==
    /\ InitLocks
    /\ [][NextLocks]_vars
    /\ \A th \in Threads : WF_vars(Lock(th)) /\ WF_vars(Unlock(th))

----------------------------------------------------------------------------
(* SpecKills: the log of a player who sees deaths by two attackers, one of  *)
(* a known and one of an unknown actor, in the matches of one server        *)
(* instance; the "dead" lines are counted by suffix from the insertion of   *)
(* the front game on.                                                       *)

InitKills ==
    /\ Constructed
    /\ call = NoCall
    /\ tail = TailOff
    /\ joined = JoinedOff
    /\ overlay = OverlayOff
    /\ locks = LocksOff
    /\ deaths = {[s \in Suffixes |-> 0]}

KillLines ==
    {ResultLine(t, {"Dead"}, {<<c, s>>}, {"WP_E_Pistol_Bullet_01"}, {"50.0"}) :
        t \in Times, c \in {"PRO_PlayerCharacter", "Unknown_BP"}, s \in Suffixes}
    \cup {ResultLine(t, {"Escaped"}, {}, {}, {}) : t \in Times}
    \cup {MatchStateLine(t, {"inMatch"}) : t \in Times}

NextKills ==
    \/ \E l \in DeadSessionLines \cap TravelLines : TravelToServer(l)
    \/ \E l \in DeadSessionLines \cap WelcomedLines : WelcomedByServer(l)
    \/ \E l \in KillLines \cap ResultLines : MatchFinishedResult(l)
    \/ \E l \in KillLines \cap MatchStateLines : PlayerMatchState(l)

SpecKills == InitKills /\ [][NextKills]_vars

----------------------------------------------------------------------------
(* the properties of the player counters *)

\* C1: total_players and near_players of every session in the history are
\* never negative, and a left-match line at total_players = 0, or a
\* character-destroyed line at near_players = 0, leaves the counter at 0.
CountersNeverNegative ==
    /\ \A i \in 1..Len(games) :
            games[i].total_players >= 0 /\ games[i].near_players >= 0
    /\ (InGameBefore /\ LeftLine /\ before.games[1].total_players = 0)
            => games[1].total_players = 0
    /\ (InGameBefore /\ DestroyedLine /\ before.games[1].near_players = 0)
            => games[1].near_players = 0

\* a left-match line was handled in a game whose total_players was 0
LeftAtZero ==
    /\ InGameBefore /\ LeftLine
    /\ before.games[1].total_players = 0
    /\ before.games[1].near_players = 0
    /\ Len(out) = 1

\* C5 as claimed: every overlay action is sent with no StateHolder mutex held
NoLockHeldAtSend == \A i \in 1..Len(out) : out[i].held = {}

\* C7: a non-match travel line handled in a game clears the in-game flag,
\* zeroes the front session's counters and empties its kill_count, keeps it
\* and every other session in the history, and sends one UpdateState(None).
LeaveDropsFront ==
    (InGameBefore /\ NonMatchTravelLine) =>
        /\ ~in_game
        /\ before.games # <<>>
        /\ Len(games) = Len(before.games)
        /\ games[1] = [before.games[1] EXCEPT !.total_players = 0, !.near_players = 0,
                                              !.kill_count = EmptyKills]
        /\ \A i \in 2..Len(games) : games[i] = before.games[i]
        /\ Len(out) = 1
        /\ out[1].kind = "UpdateState"
        /\ out[1].game = {}

\* a non-match travel line was handled in a game whose front session had
\* players, near players and kills
LeftGameWithCounters ==
    /\ InGameBefore /\ NonMatchTravelLine
    /\ before.games[1].total_players > 0
    /\ before.games[1].near_players > 0
    /\ before.games[1].kill_count # EmptyKills
    /\ Len(games) > 1

\* C8: in a game, an inMatch line adds exactly 1 to the front session's
\* total_players, clears last_finished, requests the 2000 Hz beep exactly
\* when the new count exceeds party_size, and sends the new count.
JoinCountsAndAlerts ==
    (InGameBefore /\ JoinedLine) =>
        /\ before.games # <<>>
        /\ games[1].total_players = before.games[1].total_players + 1
        /\ games[1] = [before.games[1] EXCEPT !.total_players = @ + 1]
        /\ last_finished = FALSE
        /\ alerts = IF games[1].total_players > games[1].party_size THEN <<2000>> ELSE <<>>
        /\ Len(out) = 1
        /\ out[1].kind = "TotalPlayerCountUpdate"
        /\ out[1].count = games[1].total_players

\* the 4th player joined a game of a party of 3
FourthJoinAlerts ==
    /\ InGameBefore /\ JoinedLine
    /\ games[1].party_size = 3
    /\ games[1].total_players = 4
    /\ alerts = <<2000>>

\* the 3rd player joined a game of a party of 3
ThirdJoinSilent ==
    /\ InGameBefore /\ JoinedLine
    /\ games[1].party_size = 3
    /\ games[1].total_players = 3
    /\ alerts = <<>>

\* C9 as claimed: in a game with total_players > 0, a left-match line
\* subtracts 1, sets last_finished, and requests the 400 Hz beep exactly when
\* the count before the decrement exceeded party_size.
LeftAlertsOnCountBefore ==
    (InGameBefore /\ LeftLine /\ before.games[1].total_players > 0) =>
        /\ games[1].total_players = before.games[1].total_players - 1
        /\ last_finished = TRUE
        /\ alerts = IF before.games[1].total_players > before.games[1].party_size
                    THEN <<400>> ELSE <<>>

----------------------------------------------------------------------------
(* the properties of set_game *)

\* the line made the server parser call set_game
Inserted ==
    /\ task = "running"
    /\ before.server.hold
    /\ \E l \in line : l.text = "Welcomed by server"

\* the positions of the history, when the line arrived, that hold the
\* instance_id of the inserted game
ExistingAt == {i \in 1..Len(before.games) :
                    before.games[i].instance_id = before.server.instance_id}

FirstExisting == CHOOSE i \in ExistingAt : \A j \in ExistingAt : i <= j

Zeroed(game) ==
    [game EXCEPT !.total_players = 0, !.near_players = 0, !.kill_count = EmptyKills]

\* C2 as claimed: when the instance_id is already in the history, the front
\* after set_game has the counters and kill_count the existing entry had
\* immediately before the call, wherever that entry was.
DedupKeepsCounters ==
    (Inserted /\ ExistingAt # {}) =>
        /\ games[1].total_players = before.games[FirstExisting].total_players
        /\ games[1].near_players = before.games[FirstExisting].near_players
        /\ games[1].kill_count = before.games[FirstExisting].kill_count

\* C3 as claimed: set_game with an instance_id of the history leaves the
\* length of the history unchanged, no two entries share an instance_id, and
\* a new instance_id adds exactly one entry at the front.
DedupMovesExisting ==
    /\ \A i, j \in 1..Len(games) : i # j => games[i].instance_id # games[j].instance_id
    /\ Inserted =>
        /\ games[1].instance_id = before.server.instance_id
        /\ Len(games) = IF ExistingAt # {} THEN Len(before.games) ELSE Len(before.games) + 1

\* C3 as amended: set_game adds exactly one entry at the front, whether or
\* not the instance_id is in the history; the entries it found follow in
\* their order, the old front with its counters zeroed; with an instance_id
\* of the history the added entry is a copy of the first entry that holds it
\* (zeroed when that is the old front), which also stays where it was.
DedupCopiesExisting ==
    Inserted =>
        /\ Len(games) = Len(before.games) + 1
        /\ games[1].instance_id = before.server.instance_id
        /\ \A i \in 1..Len(before.games) :
                games[i + 1] = IF i = 1 THEN Zeroed(before.games[1]) ELSE before.games[i]
        /\ ExistingAt # {} => games[1] = games[FirstExisting + 1]
        /\ ExistingAt = {} =>
                /\ games[1].total_players = 0
                /\ games[1].near_players = 0
                /\ games[1].kill_count = EmptyKills

\* set_game found the instance_id in an entry behind the front
DedupOfOlderEntry ==
    /\ Inserted
    /\ ExistingAt # {}
    /\ 1 \notin ExistingAt
    /\ Len(games) = 3

----------------------------------------------------------------------------
(* the properties of the parsing task *)

\* C4 as claimed: whatever line is handled, the parsing task goes on to the
\* following lines.
NoLineStopsTheTask == task = "running"

\* C6: after scenario A (match travel with sessionId X and region R, forcing
\* line with SquadSize=n, challenge response, welcomed line with a known
\* map code) on a fresh parser and an empty store, the history is one
\* session with instance_id X, region R, party_size n, the map of the code
\* and no players, the in-game flag is set and the welcomed line sent the
\* one UpdateState, which carries that session.
ScenarioACreatesOneSession ==
    scen # ScenOff =>
        /\ Len(scen) < 4 => games = <<>> /\ ~in_game /\ out = <<>>
        /\ Len(scen) = 4 =>
            /\ Len(games) = 1
            /\ scen[1].session_id = {games[1].instance_id}
            /\ scen[1].region = {games[1].region}
            /\ parse_int(CHOOSE n \in scen[2].squad_size : TRUE) = {games[1].party_size}
            /\ games[1].map =
                CASE scen[4].map = {"MAP01"} -> GameMap("BrightSands", NORMAL)
                  [] scen[4].map = {"MAP02"} -> GameMap("CrescentFalls", NORMAL)
                  [] scen[4].map = {"AlienCaverns"} -> GameMap("TharisIsland", THARIS)
            /\ games[1].total_players = 0
            /\ games[1].near_players = 0
            /\ in_game
            /\ out = <<UpdateState({games[1]}, {})>>

\* scenario A with SquadSize=3 and the map code MAP01 has been handled
ScenarioAHandled ==
    /\ scen # ScenOff
    /\ Len(scen) = 4
    /\ scen[2].squad_size = {"3"}
    /\ scen[4].map = {"MAP01"}
    /\ games[1].party_size = 3
    /\ games[1].map.family = "BrightSands"

----------------------------------------------------------------------------
(* the properties of the "dead" result lines *)

\* the line was a "dead" result line handled in a game
DeadHandled ==
    /\ InGameBefore
    /\ task = "running"
    /\ \E l \in line :
        /\ l.text = "AYPlayerState::OnRep_PlayerMatchFinishedResult"
        /\ \E r \in l.result : to_lowercase(r) = "dead"

LineCauser == UNION {Actor_get(l.causer_name) : l \in
                {[causer_name |-> p[1]] : p \in UNION {l.causer : l \in line}}}

LineOrigin == UNION {Weapon_get(o) : o \in UNION {l.origin : l \in line}}

\* C10: the weapon of the PlayerDead action of a "dead" line is Suicide when
\* the causer is the actor None, whatever the origin weapon; Fall when the
\* causer is the actor Player and the origin weapon is the weapon None; the
\* origin weapon, found or not, for every other origin of the causer Player;
\* and no weapon for every other causer, known or unknown.
WeaponFallbackChain ==
    DeadHandled =>
        /\ Len(out) = 1
        /\ out[1].kind = "PlayerDead"
        /\ out[1].causer = LineCauser
        /\ out[1].weapon =
            IF \E a \in LineCauser : a.name = "None"
            THEN {[name |-> "Suicide", rarity |-> "Common", log_name |-> "Suicide"]}
            ELSE IF \E a \in LineCauser : a.name = "Player"
            THEN IF \E w \in LineOrigin : w.name = "None"
                 THEN {[name |-> "Fall", rarity |-> "Uncommon", log_name |-> "Fall"]}
                 ELSE LineOrigin
            ELSE {}

\* a "dead" line with the causer Player and the origin weapon None was handled
PlayerFell ==
    /\ DeadHandled
    /\ \E a \in LineCauser : a.name = "Player"
    /\ \E w \in LineOrigin : w.name = "None"
    /\ \E w \in out[1].weapon : w.name = "Fall"

----------------------------------------------------------------------------
(* the properties of games_ago *)

\* the positions behind the front of the entries equal to the front
EqualToFront == {i \in 2..Len(games) : games[i] = games[1]}

\* C11: games_ago returns the distance from the front to the nearest later
\* entry equal to the front in every field, counters included; it returns
\* nothing when the history is empty, has one entry or has no later entry
\* equal to the front; and it leaves the history as it found it.
GamesAgoIsDistanceToNearestEqual ==
    call.fn = "games_ago" =>
        /\ games = call.history
        /\ call.result = IF EqualToFront = {} THEN {}
                         ELSE {i - 1 : i \in {j \in EqualToFront :
                                                \A k \in EqualToFront : j <= k}}
        /\ Len(games) < 2 => call.result = {}

\* games_ago was asked with the front equal to the third entry and not to
\* the second
GamesAgoTwo ==
    /\ call.fn = "games_ago"
    /\ Len(games) = 3
    /\ games[1] = games[3]
    /\ games[1] # games[2]
    /\ call.result = {2}

\* games_ago was asked with a second entry that has the instance_id of the
\* front and other counters
GamesAgoCountersDiffer ==
    /\ call.fn = "games_ago"
    /\ Len(games) = 2
    /\ games[2].instance_id = games[1].instance_id
    /\ games[2].total_players # games[1].total_players
    /\ call.result = {}

----------------------------------------------------------------------------
(* the properties of substring_between *)

\* the offsets at which pat occurs in text
Occurrences(pat, text) ==
    {i \in 0..Len(text) - Len(pat) : SubSeq(text, i + 1, i + Len(pat)) = pat}

First(S) == CHOOSE i \in S : \A j \in S : i <= j

\* the part of the text of the call after the first occurrence of its start
AfterStart ==
    SubSeq(call.text, First(Occurrences(call.start, call.text)) + Len(call.start) + 1,
           Len(call.text))

\* C12: substring_between returns nothing when start does not occur in the
\* text or end does not occur after the first occurrence of start; otherwise
\* it returns the characters between the end of the first occurrence of
\* start and the first occurrence of end after it.  So start, the result and
\* end occur in the text one after the other, and no occurrence of end
\* begins inside the result.
SubstringIsBetweenFirstDelimiters ==
    (call.fn = "substring_between" /\ call.returned) =>
        IF Occurrences(call.start, call.text) = {} THEN call.result = {}
        ELSE IF Occurrences(call.end, AfterStart) = {} THEN call.result = {}
        ELSE /\ call.result = {SubSeq(AfterStart, 1, First(Occurrences(call.end, AfterStart)))}
             /\ \A r \in call.result :
                    /\ Occurrences(call.start \o r \o call.end, call.text) # {}
                    /\ \A k \in 0..Len(r) - 1 : k \notin Occurrences(call.end, AfterStart)

\* substring_between returned a result of one character or more from a text
\* in which the end delimiter occurs twice after the start delimiter
SubstringBeforeFirstOfTwoEnds ==
    /\ call.fn = "substring_between"
    /\ call.returned
    /\ call.start # <<>>
    /\ call.end # <<>>
    /\ \E r \in call.result : Len(r) >= 1
    /\ Cardinality(Occurrences(call.end, AfterStart)) >= 2

\* substring_between returned nothing for a text in which start occurs and
\* end occurs only before it
SubstringEndOnlyBeforeStart ==
    /\ call.fn = "substring_between"
    /\ call.returned
    /\ Occurrences(call.start, call.text) # {}
    /\ Occurrences(call.end, call.text) # {}
    /\ call.result = {}

----------------------------------------------------------------------------
(* the properties of the server parser *)

\* C13 as claimed: every session in the history has a party_size of 1 or
\* more, whether or not a forcing line preceded the welcomed line.
PartySizeAtLeastOne == \A i \in 1..Len(games) : games[i].party_size >= 1

----------------------------------------------------------------------------
(* the properties of the lines handled outside a game *)

\* the line is of a type the player parser or the activities parser reads
PlayerOrActivityLine ==
    \E l \in line : l.type \in {"LogYPlayer", "LogYInventory", "LogYActivities"}

\* C14: a line of the player parser or of the activities parser that arrives
\* while the in-game flag is false changes neither the history, with its
\* counters and kill tallies, nor last_finished, requests no beep and sends
\* no overlay action.
NoOpOutsideGame ==
    (line # {} /\ ~before.in_game /\ PlayerOrActivityLine) =>
        /\ games = before.games
        /\ in_game = before.in_game
        /\ last_finished = before.last_finished
        /\ alerts = <<>>
        /\ out = <<>>
        /\ task = "running"

\* an inventory line arrived outside a game while last_finished was set and
\* the history held a game
InventoryLineOutsideGame ==
    /\ line # {}
    /\ ~before.in_game
    /\ before.last_finished
    /\ before.games # <<>>
    /\ \E l \in line : l.type = "LogYInventory"

\* an activities line arrived outside a game
ActivityLineOutsideGame ==
    /\ line # {}
    /\ ~before.in_game
    /\ before.games # <<>>
    /\ \E l \in line : l.type = "LogYActivities"

----------------------------------------------------------------------------
(* the properties of the lines that do not match the line pattern *)

\* the line handled last is a raw line outside the grammar
\* [<timestamp>][<3-char-frame>]<event_type>: <free_text>
OutsideGrammar ==
    \E l \in line :
        /\ l.type = "raw"
        /\ \/ l.stamp \notin {"2023.05.01-10.00.00:000", "2023.13.01-10.00.00:000"}
           \/ l.frame # "  1"

\* C15: a line outside the grammar is discarded: the store, the fields of
\* the server parser and last_finished are as they were, nothing is sent,
\* and the task goes on to the next line.
DiscardedWithoutEffect ==
    OutsideGrammar =>
        /\ games = before.games
        /\ in_game = before.in_game
        /\ server = before.server
        /\ last_finished = before.last_finished
        /\ out = <<>>
        /\ alerts = <<>>
        /\ task = "running"

\* a line outside the grammar, whose remainder is a non-match travel line,
\* arrived in a game with players and while last_finished was set
DiscardedInGame ==
    /\ OutsideGrammar
    /\ before.in_game
    /\ before.last_finished
    /\ before.games[1].total_players > 0
    /\ \E l \in line : l.rest \in TravelLines

----------------------------------------------------------------------------
(* the properties of the inventory lines *)

InventoryLineHandled == \E l \in line : l.type = "LogYInventory"

\* C16: in a game, an inventory line with the "could not retrieve match
\* state" message adds 1 to total_players of the front game, clears
\* last_finished and sends the new count exactly when last_finished was
\* set; otherwise it changes and sends nothing.  So a second inventory line
\* after one left-match line adds nothing.
InventoryCompensatesOnce ==
    (InGameBefore /\ InventoryLineHandled) =>
        /\ in_game
        /\ alerts = <<>>
        /\ IF before.last_finished
           THEN /\ games = [before.games EXCEPT ![1].total_players = @ + 1]
                /\ ~last_finished
                /\ Len(out) = 1
                /\ out[1].kind = "TotalPlayerCountUpdate"
                /\ out[1].count = before.games[1].total_players + 1
           ELSE /\ games = before.games
                /\ ~last_finished
                /\ out = <<>>

\* an inventory line compensated a left-match line in a game
InventoryCompensated ==
    /\ InGameBefore
    /\ InventoryLineHandled
    /\ before.last_finished
    /\ games[1].total_players = 2

----------------------------------------------------------------------------
(* the properties of the history *)

\* the fields of a game that dropping it leaves alone
Identity(game) ==
    [instance_id |-> game.instance_id, region |-> game.region, name |-> game.name,
     map |-> game.map, created_at |-> game.created_at, party_size |-> game.party_size]

\* the number of entries the line handled last added to the history
Added == Len(games) - Len(before.games)

\* the line handled last dropped the game that was the front
DroppedFront ==
    /\ before.games # <<>>
    /\ task = "running"
    /\ \/ NonMatchTravelLine
       \/ \E l \in line : l.text = "Welcomed by server" /\ before.server.hold

\* C17: no line removes a game from the history: the games the line found
\* are all still there, in their order, behind the game it may have added,
\* and those behind the front are exactly as they were.  A line that drops
\* the front game empties its kill_count and sets its two counters to 0,
\* and leaves its instance_id, region, name, map, created_at and party_size
\* as they were.
HistoryOnlyGrows ==
    line # {} =>
        /\ Added \in {0, 1}
        /\ \A i \in 1..Len(before.games) :
                /\ Identity(games[i + Added]) = Identity(before.games[i])
                /\ i > 1 => games[i + Added] = before.games[i]
        /\ DroppedFront =>
                /\ games[1 + Added].kill_count = EmptyKills
                /\ games[1 + Added].total_players = 0
                /\ games[1 + Added].near_players = 0

\* a non-match travel line dropped a front game that had a player, a near
\* player and a kill, with two older games behind it
DroppedWithOlderGames ==
    /\ DroppedFront
    /\ NonMatchTravelLine
    /\ Len(before.games) = 3
    /\ before.games[1].total_players > 0
    /\ before.games[1].near_players > 0
    /\ before.games[1].kill_count # EmptyKills

\* a welcomed line added a game in front of two older games
InsertedBeforeOlderGames ==
    /\ DroppedFront
    /\ Added = 1
    /\ Len(games) = 3

----------------------------------------------------------------------------
(* the properties of the read loop *)

\* C18 as claimed: once the file is open the read loop never exits, whatever
\* the lines of the file are.
ReadLoopNeverExits == tail.pc # "off" => task = "running"

\* the consequence C18 draws: every line of the file is handed to handle
EveryLineIsHanded ==
    \A n \in 1..MaxFile : (tail.pc # "off" /\ Len(tail.file) >= n) ~> (tail.pos >= n)

\* the lines are handed to handle in the order of the file
HandedInFileOrder ==
    (tail.pc # "off" /\ tail.pos > 0) =>
        \/ line = {tail.file[tail.pos]}
        \/ line = {tail.file[tail.pos].rest}

\* a line appended after the loop had reached the end of the file was
\* handed to handle after the sleep
ReadAfterEndOfFile ==
    /\ tail.pc = "read"
    /\ tail.pos = 2
    /\ tail.errors = 1
    /\ task = "running"

----------------------------------------------------------------------------
(* the properties of the Holding state of the server parser *)

MatchTravelLine ==
    \E l \in line :
        l.text = "UYControllerTravelComponent::TravelToServer" /\ l.is_match \notin {{}, {"0"}}

WelcomedLineHandled == \E l \in line : l.text = "Welcomed by server"

ChallengeLineHandled == \E l \in line : l.text = "SendChallengeResponse"

\* C19: the server parser is Holding exactly from a match travel line to
\* the welcomed line that creates the session.  A welcomed line creates a
\* session, and sends it, only while Holding, and leaves Holding; a
\* welcomed line while not Holding changes nothing and sends nothing; a
\* challenge response while not Holding leaves created_at as it was.
SessionOnlyWhileHolding ==
    (line # {} /\ task = "running") =>
        /\ server.hold = IF MatchTravelLine THEN TRUE
                         ELSE IF WelcomedLineHandled THEN FALSE
                         ELSE before.server.hold
        /\ (WelcomedLineHandled /\ before.server.hold) =>
                /\ Len(games) = Len(before.games) + 1
                /\ in_game
                /\ Len(out) = 1
                /\ out[1].kind = "UpdateState"
                /\ \E game \in out[1].game : game.instance_id = games[1].instance_id
        /\ (WelcomedLineHandled /\ ~before.server.hold) =>
                /\ games = before.games
                /\ in_game = before.in_game
                /\ server = before.server
                /\ out = <<>>
        /\ (ChallengeLineHandled /\ ~before.server.hold) => server = before.server

\* a second welcomed line arrived with no match travel line after the
\* welcomed line that created the session in which a player has joined
SecondWelcomedLine ==
    /\ WelcomedLineHandled
    /\ task = "running"
    /\ ~before.server.hold
    /\ before.in_game
    /\ before.games[1].total_players = 1

\* a challenge response arrived while not Holding, after one that had set
\* created_at while Holding
ChallengeWhileNotHolding ==
    /\ ChallengeLineHandled
    /\ ~before.server.hold
    /\ before.server.created_at = 95
    /\ \E l \in line : l.timestamp = {"5"}

\* C20 as claimed: a match travel line without sessionId or without region
\* is abandoned: the task goes on to the next line and the server parser
\* keeps the instance_id and the region it had stored.
TravelWithoutFieldsAbandoned ==
    (MatchTravelLine /\ \E l \in line : l.session_id = {} \/ l.region = {}) =>
        /\ task = "running"
        /\ server.instance_id = before.server.instance_id
        /\ server.region = before.server.region

----------------------------------------------------------------------------
(* the properties of the UpdateState actions *)

\* the line handled last made the server parser create a session
SessionCreated == WelcomedLineHandled /\ before.server.hold /\ task = "running"

\* C21 as claimed: the session the UpdateState action of a welcomed line
\* carries is the session at the front of the history after set_game, in
\* every field, also when set_game found the instance_id in the history.
UpdateStateCarriesFront ==
    SessionCreated => (Len(out) = 1 /\ out[1].game = {games[1]})

----------------------------------------------------------------------------
(* the properties of the non-match travel lines *)

\* C24 as claimed: a non-match travel line returns the server parser to
\* Idle, also when it arrives while the parser is Holding, so that a
\* welcomed line after it creates no session.
NonMatchTravelLeavesHolding ==
    (line # {} /\ NonMatchTravelLine /\ task = "running") => ~server.hold

----------------------------------------------------------------------------
(* the properties of the counters of the history *)

\* C27: every game of the history behind the front has total_players 0,
\* near_players 0 and an empty kill_count, and while the in-game flag is
\* false the front game has them too.
OnlyFrontInGameCounts ==
    /\ \A i \in 2..Len(games) : games[i] = Zeroed(games[i])
    /\ (~in_game /\ games # <<>>) => games[1] = Zeroed(games[1])

\* in game, the front has a player, a near player and a kill, and two
\* older games are behind it
FrontCountsBeforeOlderGames ==
    /\ in_game
    /\ Len(games) = 3
    /\ games[1].total_players > 0
    /\ games[1].near_players > 0
    /\ games[1].kill_count # EmptyKills

----------------------------------------------------------------------------
(* the properties of the in-game flag *)

\* C28: whenever the in-game flag is true the history is not empty and its
\* front is the session the most recent welcomed transition inserted: a line
\* that leaves the flag true either inserted the front, which has the
\* instance_id the parser held, or found the flag true and left the front
\* where it was.  The player parser therefore never finds the list empty
\* behind its in-game guard.
FrontIsLatestSession ==
    /\ in_game => games # <<>>
    /\ (line # {} /\ in_game) =>
            \/ /\ Inserted
               /\ games[1].instance_id = before.server.instance_id
            \/ /\ ~Inserted
               /\ before.in_game
               /\ Added = 0
               /\ Identity(games[1]) = Identity(before.games[1])

\* a player joined the third session of the history, which is of another
\* server instance than the one before it
JoinedThirdSession ==
    /\ in_game
    /\ JoinedLine
    /\ Len(games) = 3
    /\ games[1].instance_id # games[2].instance_id
    /\ games[1].total_players = 2

----------------------------------------------------------------------------
(* the properties of the overlay *)

\* the event loop handled an UpdateState that carries a game
SessionStartedHandled ==
    /\ overlay.pc = "run"
    /\ \E h \in overlay.handled : h.event.kind = "UpdateState" /\ h.event.game # {}

\* C22 as claimed: when the event loop handles the UpdateState of a session
\* and asks games_ago, the answer is the one games_ago had immediately after
\* the session was inserted, whatever lines the parsing task has handled in
\* between.
GamesAgoAsInserted ==
    SessionStartedHandled => \A h \in overlay.handled : h.ago = h.inserted_ago

\* C26 as claimed: every change of the front game's total_players or
\* near_players, the reset to 0 of a drop and the start from 0 of an insert
\* included, is followed by a count action with the new value, so that once
\* the event loop has handled every action sent, the counts of its server
\* block are those of the front game.
SinkCountsAreFrontCounts ==
    (overlay.pc = "run" /\ overlay.queue = <<>> /\ games # <<>>) =>
        /\ overlay.server_block.total_players = games[1].total_players
        /\ overlay.server_block.near_players = games[1].near_players

\* C29: after every line handled to its end, the in-game flag is true
\* exactly when the UpdateState sent last carries a game; it is false when
\* that action carries none and when none has been sent.
InGameIffSessionEmitted ==
    (line # {} /\ task = "running") =>
        (in_game <=> \E e \in overlay.emitted : e.game # {})

\* a player joined the second session, after the UpdateState of a leave and
\* the one of the second session were sent
JoinedSecondSession ==
    /\ in_game
    /\ JoinedLine
    /\ Len(games) = 2
    /\ \E e \in overlay.emitted : e.game # {}

\* the player left the session: the UpdateState sent last carries no game
LeftSession ==
    /\ ~in_game
    /\ NonMatchTravelLine
    /\ games # <<>>
    /\ overlay.emitted = {UpdateState({}, {})}

----------------------------------------------------------------------------
(* the properties of the player-state lines *)

\* the TotalPlayerCountUpdate actions sent while handling the line
TotalCountsSent == {i \in 1..Len(out) : out[i].kind = "TotalPlayerCountUpdate"}

\* C30: in game, a player-state line whose bracketed value is extracted
\* sends exactly one TotalPlayerCountUpdate, with the front game's
\* total_players of after the line, also when the line did not change it; a
\* line whose value is not extracted sends nothing and leaves total_players
\* and last_finished as they were.
PlayerStateLineNotifiesTotal ==
    \A l \in line :
        (InGameBefore /\ task = "running" /\ l.text = "OnRep_PlayerMatchState") =>
            IF l.state # {}
            THEN /\ Cardinality(TotalCountsSent) = 1
                 /\ \A i \in TotalCountsSent : out[i].count = games[1].total_players
            ELSE /\ out = <<>>
                 /\ games[1].total_players = before.games[1].total_players
                 /\ last_finished = before.last_finished

\* a player left a game nobody had joined: the count stays 0 and is sent
LeftAtZeroNotified ==
    /\ InGameBefore
    /\ LeftLine
    /\ before.games[1].total_players = 0
    /\ games[1].total_players = 0
    /\ TotalCountsSent # {}

\* a player-state line without a bracketed value arrived after a player left
PlayerStateLineWithoutValue ==
    /\ InGameBefore
    /\ before.last_finished
    /\ before.games[1].total_players > 0
    /\ \E l \in line : l.text = "OnRep_PlayerMatchState" /\ l.state = {}

----------------------------------------------------------------------------
(* the properties of the count of joined players *)

\* C23 as claimed: the front game's total_players never exceeds the number
\* of 'inMatch' lines handled since that game became the front: the
\* increment of an inventory line only restores a decrement made in the
\* same session, also when the session before ended right after a player
\* left.
TotalWithinJoinedLines ==
    games # <<>> => \A n \in joined : games[1].total_players <= n

----------------------------------------------------------------------------
(* the properties of the mutexes *)

\* the order in which the mutexes are taken
Rank(m) == CASE m = "in_game" -> 1 [] m = "games" -> 2 [] m = "sender" -> 3

\* every thread that is at a lock() holds only mutexes that come before the
\* one it asks for, and the two threads do not wait for each other
LockOrderKept ==
    /\ \A th \in Threads :
            (locks.todo[th] # <<>> /\ Head(locks.todo[th]).op = "lock") =>
                \A m \in Mutexes :
                    locks.owner[m] = th => Rank(m) < Rank(Head(locks.todo[th]).mutex)
    /\ ~(Blocked("task") /\ Blocked("loop"))

----------------------------------------------------------------------------
(* the properties of the kill tallies *)

\* the suffix of the causer of the line handled last
LineSuffix == {p[2] : p \in UNION {l.causer : l \in line}}

\* C31: the causer_kills of a PlayerDead action is the number of "dead"
\* result lines with the same suffix handled since the front game was
\* inserted, the line of the action included: the tallies are kept by
\* suffix, start from 0 with every inserted game, are at least 1 in every
\* action and grow whether or not the causer is a known actor.
TallyCountsDeadLines ==
    DeadHandled =>
        /\ Len(out) = 1
        /\ out[1].kind = "PlayerDead"
        /\ out[1].causer_kills >= 1
        /\ \A count \in deaths : \A s \in LineSuffix : out[1].causer_kills = count[s]

\* in the second session the second kill of an attacker of an unknown actor
\* follows a kill of the other attacker
SecondKillInSecondSession ==
    /\ DeadHandled
    /\ Len(games) = 2
    /\ LineCauser = {}
    /\ out[1].causer_kills = 2
    /\ \E count \in deaths : \A s \in Suffixes : count[s] > 0

----------------------------------------------------------------------------
(* the properties of the fields of a created session *)

\* the welcomed line handled last had a map code parse_map does not know
UnknownMapCode == \E l \in line : \E m \in l.map : parse_map(m) = {}

\* C32 as claimed: a welcomed line handled while Holding whose map code is
\* not one of the three known codes still creates and inserts a session,
\* and the map of that session is the map the parser had stored, which
\* stays as it was.
UnknownCodeKeepsMap ==
    (SessionCreated /\ UnknownMapCode) =>
        /\ Added = 1
        /\ server.map = before.server.map
        /\ games[1].map = before.server.map

\* the map variants parse_map can produce
LookedUpMaps == UNION {parse_map(m) : m \in MapCodes}

\* C33 as claimed: every game of the history has one of the three map
\* variants of the lookup, also when the first session is created from an
\* unknown map code.
EveryMapIsLookedUp == \A i \in 1..Len(games) : games[i].map \in LookedUpMaps

\* the created_at a handshake line of the log gives: its time less its
\* Timestamp field corrected by 5 seconds
HandshakeTimes ==
    {l.time - (n - 5) : l \in HandshakeLines, n \in UNION {parse_int(x) : x \in Timestamps}}

\* C34 as claimed: the created_at of a created session is T - (s - 5) of a
\* handshake line handled while Holding for that session, never a value
\* left over from an earlier session or the parser's initial value.
CreatedAtFromHandshake ==
    SessionCreated => \A e \in {out[1]} : \A g \in e.game : g.created_at \in HandshakeTimes

\* with an unknown map code the game that is built and carried by the
\* UpdateState action has the stored map, and so has the front game when
\* the instance_id is new to the history
UnknownCodeKeepsMapOfCreated ==
    (SessionCreated /\ UnknownMapCode) =>
        /\ Added = 1
        /\ server.map = before.server.map
        /\ \A g \in out[1].game : g.map = before.server.map
        /\ ExistingAt = {} => games[1].map = before.server.map

----------------------------------------------------------------------------
(* the properties of the loop over the parsers *)

\* the line handled last matched the pattern and had a timestamp
DecodedLine == \E l \in line : decoded(l)

\* C35 as claimed: for each decoded line the three parsers are each called
\* exactly once, one after the other in the order of the vector, and all
\* three have returned before the next line is read.
EveryParserCalledOnce ==
    DecodedLine => (called = parsers /\ task = "running")

----------------------------------------------------------------------------
(* the properties of the lines handed to handle *)

\* C36 as claimed: every line the game appends is handed to handle once and
\* whole, in the order of the file, also when the game writes the line in
\* several writes and the read loop reaches the end of the file between
\* them: no part of a line is handed over.
OnlyWholeLinesHanded == \A l \in line : "part" \notin DOMAIN l

----------------------------------------------------------------------------
(* the timestamp of a line *)

\* the n-th line of the file matches the pattern and its timestamp is no date
UndatedAt(n) ==
    /\ n <= Len(tail.file)
    /\ captures(tail.file[n]) # {}
    /\ datetime_from_str(tail.file[n].stamp) = {}

\* C37: a line that matches the pattern and whose timestamp is no date is
\* not skipped: handing it to handle ends the task without a change of the
\* store, and the read loop never goes behind it.
UndatedLineEndsTask ==
    IF tail.pc = "off" THEN TRUE
    ELSE \A n \in 1..MaxFile :
            UndatedAt(n) =>
                /\ tail.pos <= n
                /\ tail.pos = n =>
                        /\ task = "panicked"
                        /\ line = {tail.file[n]}
                        /\ Current = before
                        /\ out = <<>>

\* the task ended at a line without a date while the file held a line
\* behind it
UndatedLineBeforeAnother ==
    /\ tail.pc # "off"
    /\ UndatedAt(1)
    /\ tail.pos = 1
    /\ Len(tail.file) >= 2
    /\ task = "panicked"

----------------------------------------------------------------------------
(* the start of the process *)

\* process_log_file has returned because the file could not be opened
OpenFailed == tail.pc = "closed" /\ task = "returned"

\* C38 as claimed: when the open of the log file fails the process ends
\* with a non-zero exit code, and the overlay never runs without the
\* parsing task.
OpenFailureEndsProcess ==
    IF tail.pc = "off" THEN TRUE
    ELSE OpenFailed => (tail.exit # {} /\ 0 \notin tail.exit /\ overlay.pc # "run")

\* what does hold: a file that is missing at the check of main ends the
\* process with the exit code -1 before the task and the overlay exist
MissingAtCheckExits ==
    IF tail.pc = "off" THEN TRUE
    ELSE tail.pc = "exited" => (tail.exit = {-1} /\ task = "unspawned" /\ overlay.pc = "off")

\* the process has ended at the check of main
ExitedAtCheck == tail.pc = "exited"
====
